---- MODULE Spec2Model ----
(***************************************************************************)
(* A model of the SIM9xx modem driver (sim9.c / sim9.h).                   *)
(*                                                                         *)
(* The driver is a single thread of control that blocks in delay/poll      *)
(* loops; the only asynchronous party is the serial receive path, which    *)
(* queues complete lines coming from the modem while the driver polls.     *)
(* The driver is modelled one poll iteration / one loop iteration at a     *)
(* time so that the receive path can interleave where it can on the        *)
(* hardware.  Text is modelled as tuples of one-character strings.         *)
(***************************************************************************)
EXTENDS Integers, Sequences, FiniteSets, TLC

(***************************************************************************)
(* Bounds of the model (not program constants).                            *)
(***************************************************************************)
\* lines the modem produces in one run
MaxLines == 2
\* complete lines the receive queue can hold at once
MaxQueue == 2
\* largest timeout (seconds) handed to a direct sim9_msg call
MaxTimeout == 2
\* largest buffer capacity handed to a direct sim9_msg call
MaxSize == 5
\* largest retry count handed to a direct sim9_searchfor call
MaxCount == 2
\* receive capacity of the transport (sim9->usart->rx->size)
RxSize == 32
\* transmit capacity of the transport (sim9->usart->tx_size)
TxSize == 16
\* lines the modem produces around one command
MaxAtLines == 3
\* driver functions the application calls in one run
MaxOps == 1

\* calls in a row of the functions of one family
MaxRepeat == 2

(***************************************************************************)
(* Program constants.                                                      *)
(***************************************************************************)
\* loop = timeout * 100
LoopsPerSecond == 100
\* if (len < 3) len = 0
MinMsgLen == 3
\* uint16_t loop
LoopModulus == 65536
\* uint8_t count, len
ByteModulus == 256
\* search modes, sim9.h
EQUAL == 0
RELAX == 1
STRICT == 2
EEQUAL == 3
ERELAX == 4
ESTRICT == 5
\* answer shapes, sim9.h
SENDAT_TYPE_NONE == 0
SENDAT_TYPE_OK == 1
SENDAT_TYPE_MSGOK == 2
SENDAT_TYPE_MSG == 3

(***************************************************************************)
(* Bytes and text.                                                         *)
(***************************************************************************)
CR == "CR"
LF == "LF"
NUL == "NUL"
\* content of memory that was never written
JUNK == "?"

Min(a, b) == IF a < b THEN a ELSE b

\* a modem line: text followed by [CR][LF]
Framed(text) == text \o <<CR, LF>>

TxtOK == <<"O", "K">>
TxtERROR == <<"E", "R", "R", "O", "R">>
TxtXOK == <<"x", "O", "K">>
TxtRDY == <<"R", "D", "Y">>
TxtMODEM == <<"M", "O", "D", "E", "M", " ", "R", "D", "Y", " ", "N", "O", "W">>
TxtCGATT == <<"+", "C", "G", "A", "T", "T", ":", " ", "1">>
TxtAT == <<"A", "T">>

\* lines of the direct sim9_msg runs: 1, 2, 3, 4 and 7 bytes long
MsgLines == {<<LF>>, Framed(<<>>), Framed(<<"A">>), Framed(TxtOK), Framed(TxtERROR)}

(***************************************************************************)
(* State.                                                                  *)
(***************************************************************************)
VARIABLES
    rxq,        \* transport: complete lines received and not yet dequeued
    delivered,  \* number of lines the modem has produced so far
    extbuf,     \* the caller-supplied buffer (s / msg / extbuff)
    scratch,    \* sim9_searchfor's own buffer (malloc(rx->size))
    mpc,        \* sim9_msg: "off", "poll" (in the do-while), "ret" (returned)
    mdst,       \* sim9_msg: the buffer s points to: "ext" or "scratch"
    msize,      \* sim9_msg: size
    loop,       \* sim9_msg: loop
    mlen,       \* sim9_msg: len, the return value once mpc = "ret"
    mtimeout,   \* sim9_msg: timeout
    polls,      \* history: iterations of the do-while in this call
    mwrites,    \* history: offsets of s written in this call
    mlines,     \* history: lines dequeued from the transport in this call
    spc,        \* sim9_searchfor: "off", "run" (in the do-while), "ret"
    spat,       \* sim9_searchfor: s, the string to look for
    stype,      \* sim9_searchfor: type
    sdst,       \* sim9_searchfor: buffer: "ext" (extbuff) or "scratch"
    ssize,      \* sim9_searchfor: size
    count,      \* sim9_searchfor: count
    sok,        \* sim9_searchfor: ok, the return value once spc = "ret"
    check_error,\* sim9_searchfor: check_error
    scount0,    \* history: count as passed by the caller
    attempts,   \* history: sim9_msg calls made by this search
    slast,      \* history: the message this search examined last, if any
    echo,       \* sim9->status.echo
    txlog,      \* transport: the strings handed to sim9_send so far
    apc,        \* sim9_send_at: "off", "echo_delay", "echo", "answer_delay",
                \*   "msg", "ok", "ret"
    acmd,       \* sim9_send_at: cmd
    atype,      \* sim9_send_at: type
    aok,        \* sim9_send_at: ok, the return value once apc = "ret"
    echores,    \* history: the echo search: "none", "pass" or "fail"
    msgres,     \* history: the payload retrieval: "none", "pass" or "fail"
    okres,      \* history: the search for "OK": "none", "pass" or "fail"
    fpc,        \* the stack of positions of the driver functions in progress;
                \*   <<"idle">> before the first call, <<"ret">> once returned
    fn,         \* the function the application called last
    retry,      \* retry, the loop counter of the function in progress
    errors,     \* sim9->errors, one flag per name
    status,     \* sim9->status: ready, gprs, provider, tsmode, connected
    imeibuf,    \* sim9->imei
    fbuf,       \* the buffer the function in progress allocated, if it keeps one
    calls,      \* history: the modem calls of the function in progress
    pre,        \* history: errors, status and echo when the function was called
    prev,       \* history: the pin_check that returned last, when it was the
                \*   function called before this one
    nops,       \* history: functions the application has called
    sim9,       \* the global sim9: 0 for NULL, or the allocation it points to
    live,       \* the allocations of sim9_init that were not freed
    handle      \* history: the pointer the last sim9_init returned, 0 if none

msgvars == <<mpc, mdst, msize, loop, mlen, mtimeout, polls, mwrites, mlines>>
srchvars == <<spc, spat, stype, sdst, ssize, count, sok, check_error,
              scount0, attempts, slast>>
atvars == <<apc, acmd, atype, aok, echores, msgres, okres>>
memvars == <<sim9, live, handle>>
sessvars == <<fpc, fn, retry, errors, status, imeibuf, fbuf, calls, pre, prev, nops,
              memvars>>
vars == <<rxq, delivered, extbuf, scratch, msgvars, srchvars, echo, txlog, atvars,
          sessvars>>

(***************************************************************************)
(* Memory helpers.                                                         *)
(***************************************************************************)
Fresh(size) == [i \in 1..size |-> JUNK]

\* store bytes at offsets 0 .. Len(bytes)-1 ; a store outside the buffer is
\* not a store to the buffer
Copy(buf, bytes) ==
    [i \in 1..Len(buf) |-> IF i <= Len(bytes) THEN bytes[i] ELSE buf[i]]

Store(buf, off, byte) ==
    IF off >= 0 /\ off < Len(buf) THEN [buf EXCEPT ![off + 1] = byte] ELSE buf

(***************************************************************************)
(* Transport.                                                              *)
(***************************************************************************)
\* the bytes usart_getmsg copies into a buffer of the given capacity
usart_getmsg(line, size) == SubSeq(line, 1, Min(Len(line), size))

\* sim9->usart->flags.eol
flags_eol == Len(rxq)

\* the receive path completes one more line
ModemLine(lines, max) ==
    /\ delivered < max
    /\ Len(rxq) < MaxQueue
    /\ \E ln \in lines : rxq' = Append(rxq, ln)
    /\ delivered' = delivered + 1

(***************************************************************************)
(* sim9_msg                                                                *)
(***************************************************************************)
LoopInit(timeout) == timeout * LoopsPerSecond

\* mutants: no short-line filter; a filter that lets 1 and 2 through
IgnoreShortOff(len) == len

IgnoreShortOne(len) == IF len < 1 THEN 0 ELSE len

IgnoreShort(len) == IF len < MinMsgLen THEN 0 ELSE len

\* mutants: the terminator stored at s[len], at s[len - 1]
TermOffsetLen(len) == len

TermOffsetPrev(len) == len - 1

TermOffset(len) == len - 2

\* entry: len = 0; loop = timeout * 100
sim9_msg_enter(dst, size, timeout) ==
    /\ mpc' = "poll"
    /\ mdst' = dst
    /\ msize' = size
    /\ mtimeout' = timeout
    /\ loop' = LoopInit(timeout)
    /\ mlen' = 0
    /\ polls' = 0
    /\ mwrites' = {}
    /\ mlines' = <<>>

\* one iteration of the do-while, with the return when the loop ends
sim9_msg_poll ==
    /\ UNCHANGED sessvars
    /\ mpc = "poll"
    /\ LET eol == flags_eol > 0
           got == IF eol THEN usart_getmsg(Head(rxq), msize) ELSE <<>>
           len == IF eol THEN IgnoreShort(Len(got)) ELSE mlen
           old == IF mdst = "ext" THEN extbuf ELSE scratch
           filled == Copy(old, got)
           new == IF len # 0 THEN Store(filled, TermOffset(len), NUL) ELSE filled
       IN  /\ rxq' = IF eol THEN Tail(rxq) ELSE rxq
           /\ mlines' = IF eol THEN Append(mlines, Head(rxq)) ELSE mlines
           /\ mlen' = len
           /\ loop' = IF len # 0 THEN loop ELSE (loop - 1) % LoopModulus
           /\ mpc' = IF len # 0 \/ loop = 0 THEN "ret" ELSE "poll"
           /\ extbuf' = IF mdst = "ext" THEN new ELSE extbuf
           /\ scratch' = IF mdst = "scratch" THEN new ELSE scratch
           /\ mwrites' = mwrites \cup (0 .. Len(got) - 1)
                            \cup (IF len # 0 THEN {TermOffset(len)} ELSE {})
    /\ polls' = polls + 1
    /\ UNCHANGED <<delivered, mdst, msize, mtimeout, srchvars, echo, txlog, atvars>>

(***************************************************************************)
(* C strings: strlen, strncmp, strcmp, strstr as the C library computes    *)
(* them.  A string argument is the text before its terminator.             *)
(***************************************************************************)
\* the string a buffer holds: the bytes before the first NUL
CStr(buf) ==
    LET nuls == {i \in 1..Len(buf) : buf[i] = NUL}
    IN  IF nuls = {} THEN buf
        ELSE SubSeq(buf, 1, (CHOOSE i \in nuls : \A j \in nuls : i <= j) - 1)

\* the character at position i, the terminator once past the text
At(str, i) == IF i <= Len(str) THEN str[i] ELSE NUL

strlen(str) == Len(str)

RECURSIVE strncmp_at(_, _, _, _)
strncmp_at(a, b, n, i) ==
    IF i > n THEN 0
    ELSE IF At(a, i) # At(b, i) THEN 1
    ELSE IF At(a, i) = NUL THEN 0
    ELSE strncmp_at(a, b, n, i + 1)

\* 0 when equal over at most n characters, 1 (nonzero) otherwise
strncmp(a, b, n) == strncmp_at(a, b, n, 1)

strcmp(a, b) == strncmp(a, b, Len(a) + Len(b) + 1)

RECURSIVE strstr_at(_, _, _)
strstr_at(hay, needle, i) ==
    IF strncmp(needle, SubSeq(hay, i, Len(hay)), strlen(needle)) = 0 THEN i
    ELSE IF i > Len(hay) THEN 0
    ELSE strstr_at(hay, needle, i + 1)

\* the position of the first occurrence, 0 for NULL
strstr(hay, needle) == strstr_at(hay, needle, 1)

(***************************************************************************)
(* sim9_searchfor                                                          *)
(***************************************************************************)
Modes == {EQUAL, RELAX, STRICT, EEQUAL, ERELAX, ESTRICT}

\* mutant: no mode looks for ERROR
ModeChecksErrorNever(type) == FALSE

\* the cases of the switch that set check_error
ModeChecksError(type) == type \in {ERELAX, EEQUAL}

\* mutant: every mode compares from the start of the message
ModeMatchesPrefix(type, s, buffer) == strncmp(s, buffer, strlen(s)) = 0

\* the comparison the switch selects
ModeMatches(type, s, buffer) ==
    IF type \in {ERELAX, RELAX}
    THEN strstr(buffer, s) # 0
    ELSE strncmp(s, buffer, strlen(s)) = 0

\* entry up to the first sim9_msg call of the do-while; extmem is the
\* caller's buffer when ext (extbuff # NULL)
sim9_searchfor_enter(s, cnt, ext, extmem, type) ==
    /\ spc' = "run"
    /\ spat' = s
    /\ stype' = type
    /\ count' = cnt
    /\ scount0' = cnt
    /\ sok' = FALSE
    /\ check_error' = FALSE
    /\ sdst' = IF ext THEN "ext" ELSE "scratch"
    /\ ssize' = IF ext THEN Len(extmem) ELSE RxSize
    /\ extbuf' = IF ext THEN Store(extmem, 0, NUL) ELSE extbuf
    /\ scratch' = IF ext THEN scratch ELSE Store(Fresh(RxSize), 0, NUL)
    /\ attempts' = 1
    /\ slast' = <<>>
    /\ sim9_msg_enter(IF ext THEN "ext" ELSE "scratch",
                      IF ext THEN Len(extmem) ELSE RxSize, 1)

\* from the return of sim9_msg to the next sim9_msg call, or to the return
sim9_searchfor_step ==
    /\ UNCHANGED sessvars
    /\ spc = "run"
    /\ mpc = "ret"
    /\ LET got == mlen # 0
           buffer == CStr(IF sdst = "ext" THEN extbuf ELSE scratch)
           ce == IF got THEN check_error \/ ModeChecksError(stype) ELSE check_error
           ok == IF got THEN sok \/ ModeMatches(stype, spat, buffer) ELSE sok
           cnt == IF got /\ ~ok /\ ce /\ strcmp(buffer, TxtERROR) = 0
                  THEN 0 ELSE count
           again == ~ok /\ cnt # 0
       IN  /\ sok' = ok
           /\ check_error' = ce
           /\ count' = IF ok THEN cnt ELSE (cnt - 1) % ByteModulus
           /\ slast' = IF got
                       THEN <<[line |-> mlines[Len(mlines)], text |-> buffer,
                               ok |-> ok, cnt |-> count, att |-> attempts]>>
                       ELSE slast
           /\ IF again
              THEN /\ sim9_msg_enter(sdst, ssize, 1)
                   /\ attempts' = attempts + 1
                   /\ spc' = "run"
              ELSE /\ mpc' = "off"
                   /\ spc' = "ret"
                   /\ UNCHANGED <<mdst, msize, loop, mlen, mtimeout, polls,
                                  mwrites, mlines, attempts>>
    /\ UNCHANGED <<rxq, delivered, extbuf, scratch, spat, stype, sdst, ssize,
                   scount0, echo, txlog, atvars>>

(***************************************************************************)
(* sim9_send, sim9_send_P, sim9_searchfor_P                                *)
(***************************************************************************)
\* strncpy_P of a flash string into a RAM buffer of the given length
PgmCopy(s, n) == SubSeq(s, 1, Min(Len(s), n))

\* the log after sim9_send(s)
sim9_send(log, s) == Append(log, s)

\* the log after sim9_send_P(s): through tx_buf, at most tx_size bytes
sim9_send_P(log, s) == sim9_send(log, PgmCopy(s, TxSize))

\* sim9_searchfor_P: the pattern copied to RAM (at most rx->size bytes), then
\* sim9_searchfor
sim9_searchfor_P_enter(s, cnt, ext, extmem, type) ==
    sim9_searchfor_enter(PgmCopy(s, RxSize), cnt, ext, extmem, type)

(***************************************************************************)
(* sim9_send_at                                                            *)
(***************************************************************************)
Shapes == {SENDAT_TYPE_NONE, SENDAT_TYPE_OK, SENDAT_TYPE_MSGOK, SENDAT_TYPE_MSG}

Result(passed) == IF passed THEN "pass" ELSE "fail"

\* flags.eol + 1 as uint8_t
EolPlusOne == (flags_eol + 1) % ByteModulus

\* mutant: the answer is checked whatever ok holds
AnswerRunsAlways(ok) == TRUE

\* mutant: the check runs only after a failure
AnswerRunsInverted(ok) == ~ok

\* `ok = ok && <check>`: the check runs only while ok holds
AnswerRuns(ok) == ok

\* entry: the command, its terminator and, with echo, the line feed are sent
sim9_send_at_enter(cmd, msgmem, type) ==
    /\ acmd' = cmd
    /\ atype' = type
    /\ aok' = TRUE
    /\ extbuf' = msgmem
    /\ txlog' = LET sent == sim9_send_P(sim9_send(txlog, cmd), <<CR>>)
                IN  IF echo THEN sim9_send_P(sent, <<LF>>) ELSE sent
    /\ apc' = IF echo THEN "echo_delay" ELSE "answer_delay"
    /\ echores' = "none"
    /\ msgres' = "none"
    /\ okres' = "none"

\* after the 100 ms wait for the echo: the echo search starts
sim9_send_at_echo ==
    /\ UNCHANGED sessvars
    /\ apc = "echo_delay"
    /\ sim9_searchfor_enter(acmd, EolPlusOne, FALSE, <<>>, EEQUAL)
    /\ apc' = "echo"
    /\ UNCHANGED <<rxq, delivered, echo, txlog, acmd, atype, aok, echores,
                   msgres, okres>>

\* the echo search returned
sim9_send_at_echo_ret ==
    /\ UNCHANGED sessvars
    /\ apc = "echo"
    /\ spc = "ret"
    /\ aok' = sok
    /\ echores' = Result(sok)
    /\ spc' = "off"
    /\ apc' = "answer_delay"
    /\ UNCHANGED <<rxq, delivered, extbuf, scratch, msgvars, spat, stype, sdst,
                   ssize, count, sok, check_error, scount0, attempts, slast,
                   echo, txlog, acmd, atype, msgres, okres>>

\* after the 100 ms processing wait: switch (type)
sim9_send_at_answer ==
    /\ UNCHANGED sessvars
    /\ apc = "answer_delay"
    /\ IF atype \in {SENDAT_TYPE_MSGOK, SENDAT_TYPE_MSG} /\ AnswerRuns(aok)
       THEN /\ sim9_msg_enter("ext", Len(extbuf), EolPlusOne)
            /\ apc' = "msg"
            /\ UNCHANGED <<extbuf, scratch, srchvars>>
       ELSE IF atype = SENDAT_TYPE_OK /\ AnswerRuns(aok)
       THEN /\ sim9_searchfor_P_enter(TxtOK, EolPlusOne, FALSE, <<>>, EEQUAL)
            /\ apc' = "ok"
       ELSE /\ apc' = "ret"
            /\ UNCHANGED <<extbuf, scratch, msgvars, srchvars>>
    /\ UNCHANGED <<rxq, delivered, echo, txlog, acmd, atype, aok, echores,
                   msgres, okres>>

\* the payload retrieval returned; MSGOK falls through to the OK search
sim9_send_at_msg_ret ==
    /\ UNCHANGED sessvars
    /\ apc = "msg"
    /\ mpc = "ret"
    /\ aok' = (aok /\ mlen # 0)
    /\ msgres' = Result(mlen # 0)
    /\ IF atype = SENDAT_TYPE_MSGOK /\ AnswerRuns(aok /\ mlen # 0)
       THEN /\ sim9_searchfor_P_enter(TxtOK, EolPlusOne, FALSE, <<>>, EEQUAL)
            /\ apc' = "ok"
       ELSE /\ apc' = "ret"
            /\ mpc' = "off"
            /\ UNCHANGED <<extbuf, scratch, mdst, msize, loop, mlen, mtimeout,
                           polls, mwrites, mlines, srchvars>>
    /\ UNCHANGED <<rxq, delivered, echo, txlog, acmd, atype, echores, okres>>

\* the search for "OK" returned
sim9_send_at_ok_ret ==
    /\ UNCHANGED sessvars
    /\ apc = "ok"
    /\ spc = "ret"
    /\ aok' = (aok /\ sok)
    /\ okres' = Result(sok)
    /\ spc' = "off"
    /\ apc' = "ret"
    /\ UNCHANGED <<rxq, delivered, extbuf, scratch, msgvars, spat, stype, sdst,
                   ssize, count, sok, check_error, scount0, attempts, slast,
                   echo, txlog, acmd, atype, echores, msgres>>

(***************************************************************************)
(* The strings of the driver functions.                                    *)
(***************************************************************************)
TxtPlus == <<"+", "+", "+">>
TxtCRLF == <<CR, LF>>
TxtCmdCPIN == <<"A", "T", "+", "C", "P", "I", "N", "?">>
TxtCmdCGSN == <<"A", "T", "+", "C", "G", "S", "N">>
TxtCmdCGREG == <<"A", "T", "+", "C", "G", "R", "E", "G", "?">>
TxtCGREG == <<"+", "C", "G", "R", "E", "G", ":", " ", "0", ",", "1">>
TxtCmdAttach == <<"A", "T", "+", "C", "G", "A", "T", "T", "=", "1">>
TxtCmdDetach == <<"A", "T", "+", "C", "G", "A", "T", "T", "=", "0">>
TxtCmdCGATT == <<"A", "T", "+", "C", "G", "A", "T", "T", "?">>
TxtCmdCOPS == <<"A", "T", "+", "C", "O", "P", "S", "?">>
TxtCOPS == <<"+", "C", "O", "P", "S", ":">>
TxtTIM == <<"I", " ", "T", "I", "M">>
TxtOdafo == <<"o", "d", "a", "f", "o">>
TxtCmdCIICR == <<"A", "T", "+", "C", "I", "I", "C", "R">>
TxtCmdCIFSR == <<"A", "T", "+", "C", "I", "F", "S", "R">>
TxtCallReady == <<"C", "a", "l", "l", " ", "R", "e", "a", "d", "y">>
TxtCmdFactory == <<"A", "T", "&", "F", "&", "C", "0", "&", "D", "0">>
TxtCmdCNETLIGHT == <<"A", "T", "+", "C", "N", "E", "T", "L", "I", "G", "H", "T", "=", "1">>
TxtCmdCPOWD == <<"A", "T", "+", "C", "P", "O", "W", "D", "=", "1">> \o <<CR>>
TxtPowerDown == <<"N", "O", "R", "M", "A", "L", " ", "P", "O", "W", "E", "R", " ", "D", "O", "W", "N">>

(***************************************************************************)
(* The session: struct sim9_t.                                             *)
(***************************************************************************)
ErrorFlags ==
    {"init", "off", "pin", "imei", "apn", "tcpip", "netreg", "discon", "gprs",
     "esc", "connected", "gps"}

\* errors.all = 0
NoErrors == [f \in ErrorFlags |-> FALSE]

\* errors.all # 0
errors_all(e) == \E f \in ErrorFlags : e[f]

\* status.all = 0 (status.echo is the variable echo)
StatusZero ==
    [ready |-> FALSE, gprs |-> FALSE, provider |-> 0, tsmode |-> FALSE,
     connected |-> FALSE]

IMEI_SIZE == 18

(***************************************************************************)
(* sim9_msg, sim9_searchfor and sim9_send_at run to their return, for the  *)
(* functions built on them.  The lines of the modem's answer are complete  *)
(* when the call starts to read (after the waits of sim9_send_at); no line *)
(* completes while the call polls, so a poll that finds the queue empty is *)
(* followed by polls that find it empty until the loop ends.  Each run     *)
(* gives the return value, the buffer and the queue that is left.          *)
(***************************************************************************)
\* the element of a singleton; {e(x) : x \in {v}} evaluates v once for all
\* the uses of x in e
Once(S) == CHOOSE x \in S : TRUE

RECURSIVE msg_poll_run(_, _, _, _)
msg_poll_run(q0, buf0, size, lp0) ==
    Once({IF q = <<>> THEN [len |-> 0, buf |-> buf, q |-> q]
          ELSE LET got == usart_getmsg(Head(q), size)
                   len == IgnoreShort(Len(got))
                   filled == Copy(buf, got)
               IN  IF len # 0
                   THEN [len |-> len, buf |-> Store(filled, TermOffset(len), NUL),
                         q |-> Tail(q)]
                   ELSE IF lp = 0 THEN [len |-> 0, buf |-> filled, q |-> Tail(q)]
                   ELSE msg_poll_run(Tail(q), filled, size, (lp - 1) % LoopModulus)
          : q \in {q0}, buf \in {buf0}, lp \in {lp0}})

sim9_msg_run(q, buf, size, timeout) == msg_poll_run(q, buf, size, LoopInit(timeout))

\* one turn of the do-while of sim9_searchfor, after its sim9_msg call
\* returned m
RECURSIVE searchfor_loop_run(_, _, _, _, _, _, _, _)
searchfor_turn_run(m, size, s, type, cnt, ce, n) ==
    LET got == m.len # 0
        text == CStr(m.buf)
        ce2 == IF got THEN ce \/ ModeChecksError(type) ELSE ce
        ok == got /\ ModeMatches(type, s, text)
        cnt2 == IF got /\ ~ok /\ ce2 /\ strcmp(text, TxtERROR) = 0 THEN 0 ELSE cnt
    IN  IF ok \/ cnt2 = 0
        THEN [ok |-> ok, buf |-> m.buf, q |-> m.q, attempts |-> n]
        ELSE searchfor_loop_run(m.q, m.buf, size, s, type,
                                (cnt2 - 1) % ByteModulus, ce2, n + 1)

\* the do-while of sim9_searchfor from its n-th sim9_msg call on; with nothing
\* left to read every remaining call returns 0, cnt more of them are made
searchfor_loop_run(q0, buffer0, size, s, type, cnt0, ce0, n0) ==
    Once({IF q = <<>>
          THEN [ok |-> FALSE, buf |-> buffer, q |-> q, attempts |-> n + cnt]
          ELSE Once({searchfor_turn_run(m, size, s, type, cnt, ce, n)
                     : m \in {sim9_msg_run(q, buffer, size, 1)}})
          : q \in {q0}, buffer \in {buffer0}, cnt \in {cnt0}, ce \in {ce0},
            n \in {n0}})

sim9_searchfor_run(q, s0, cnt, ext, extmem, type) ==
    Once({searchfor_loop_run(q,
              Store(IF ext THEN extmem ELSE Fresh(RxSize), 0, NUL),
              IF ext THEN Len(extmem) ELSE RxSize,
              s, type, cnt, FALSE, 1)
          : s \in {s0}})

sim9_searchfor_P_run(q, s, cnt, ext, extmem, type) ==
    sim9_searchfor_run(q, PgmCopy(s, RxSize), cnt, ext, extmem, type)

\* flags.eol + 1 as uint8_t, for a queue
EolPlusOneOf(q) == (Len(q) + 1) % ByteModulus

\* the echo search, when status.echo is set
send_at_echo_run(q0, ech, cmd) ==
    Once({IF ech
          THEN sim9_searchfor_run(q, cmd, EolPlusOneOf(q), FALSE, <<>>, EEQUAL)
          ELSE [ok |-> TRUE, q |-> q]
          : q \in {q0}})

\* the payload retrieval of MSGOK and MSG, after the echo search e
send_at_msg_run(e, msgmem, type) ==
    IF type \in {SENDAT_TYPE_MSGOK, SENDAT_TYPE_MSG} /\ AnswerRuns(e.ok)
    THEN sim9_msg_run(e.q, msgmem, Len(msgmem), EolPlusOneOf(e.q))
    ELSE [len |-> 0, buf |-> msgmem, q |-> e.q]

\* ok after the case of MSGOK or MSG
send_at_ok2(e, m, type) ==
    IF type \in {SENDAT_TYPE_MSGOK, SENDAT_TYPE_MSG} THEN e.ok /\ m.len # 0 ELSE e.ok

\* the search for "OK" of MSGOK and OK, after the payload retrieval m
send_at_ok_run(e, m, type) ==
    IF type \in {SENDAT_TYPE_MSGOK, SENDAT_TYPE_OK} /\ AnswerRuns(send_at_ok2(e, m, type))
    THEN sim9_searchfor_P_run(m.q, TxtOK, EolPlusOneOf(m.q), FALSE, <<>>, EEQUAL)
    ELSE [ok |-> FALSE, q |-> m.q]

sim9_send_at_run(q, ech, cmd0, msgmem, type) ==
    Once(UNION UNION
      {{{[ok |-> IF type \in {SENDAT_TYPE_MSGOK, SENDAT_TYPE_OK}
                 THEN send_at_ok2(e, m, type) /\ o.ok
                 ELSE send_at_ok2(e, m, type),
          msg |-> m.buf, q |-> o.q]
         : o \in {send_at_ok_run(e, m, type)}}
        : m \in {send_at_msg_run(e, msgmem, type)}}
       : e \in {send_at_echo_run(q, ech, cmd0)}})

sim9_send_at_P_run(q, ech, cmd, msgmem, type) ==
    sim9_send_at_run(q, ech, PgmCopy(cmd, RxSize), msgmem, type)

\* what one sim9_send_at call hands to sim9_send
SendAtLog(log, ech, cmd) ==
    LET sent == sim9_send_P(sim9_send(log, cmd), <<CR>>)
    IN  IF ech THEN sim9_send_P(sent, <<LF>>) ELSE sent

(***************************************************************************)
(* The application calls sim9_msg directly.                                *)
(***************************************************************************)
CallMsg ==
    /\ UNCHANGED sessvars
    /\ mpc = "off"
    /\ \E size \in 0..MaxSize, timeout \in 0..MaxTimeout :
          /\ sim9_msg_enter("ext", size, timeout)
          /\ extbuf' = Fresh(size)
    /\ UNCHANGED <<rxq, delivered, scratch, srchvars, echo, txlog, atvars>>

ModemLineMsg ==
    /\ UNCHANGED sessvars
    /\ mpc # "ret"
    /\ ModemLine(MsgLines, MaxLines)
    /\ UNCHANGED <<extbuf, scratch, msgvars, srchvars, echo, txlog, atvars>>

InitDriver ==
    /\ rxq = <<>>
    /\ delivered = 0
    /\ extbuf = <<>>
    /\ scratch = <<>>
    /\ mpc = "off"
    /\ mdst = "ext"
    /\ msize = 0
    /\ mtimeout = 0
    /\ loop = 0
    /\ mlen = 0
    /\ polls = 0
    /\ mwrites = {}
    /\ mlines = <<>>
    /\ spc = "off"
    /\ spat = <<>>
    /\ stype = EQUAL
    /\ sdst = "scratch"
    /\ ssize = 0
    /\ count = 0
    /\ sok = FALSE
    /\ check_error = FALSE
    /\ scount0 = 0
    /\ attempts = 0
    /\ slast = <<>>
    /\ txlog = <<>>
    /\ apc = "off"
    /\ acmd = <<>>
    /\ atype = SENDAT_TYPE_NONE
    /\ aok = FALSE
    /\ echores = "none"
    /\ msgres = "none"
    /\ okres = "none"
    /\ fpc = <<"idle">>
    /\ fn = "none"
    /\ retry = 0
    /\ errors = NoErrors
    /\ status = StatusZero
    /\ fbuf = <<>>
    /\ calls = <<>>
    /\ pre = [errors |-> NoErrors, status |-> StatusZero, echo |-> FALSE]
    /\ prev = <<>>
    /\ nops = 0

\* sim9->imei after sim9_init: malloc(IMEI_SIZE)
FreshImei == Store(Fresh(IMEI_SIZE), 0, NUL)

\* sim9_init was called once: sim9 points to the session it allocated
Allocated == sim9 = 1 /\ live = {1} /\ handle = 1

\* after sim9_init: status.all = 0
Init == InitDriver /\ Allocated /\ echo = FALSE /\ imeibuf = FreshImei

NextMsg == CallMsg \/ sim9_msg_poll \/ ModemLineMsg

SpecMsg == Init /\ [][NextMsg]_vars

(***************************************************************************)
(* The application calls sim9_searchfor directly (extbuff = NULL).         *)
(***************************************************************************)
SearchPatterns == {TxtOK, TxtRDY, TxtCGATT}

SearchLines ==
    {Framed(<<>>), Framed(TxtOK), Framed(TxtERROR), Framed(TxtXOK), Framed(TxtMODEM)}

CallSearchfor ==
    /\ UNCHANGED sessvars
    /\ spc = "off"
    /\ \E s \in SearchPatterns, cnt \in 0..MaxCount, type \in Modes :
          sim9_searchfor_enter(s, cnt, FALSE, <<>>, type)
    /\ UNCHANGED <<rxq, delivered, echo, txlog, atvars>>

\* The instants at which the modem completes a line while a search runs are
\* bounded to: between two sim9_msg calls, before the first poll of a call
\* (the line is there when polling starts) and before its last poll (the
\* line comes late).  sim9_msg alone is checked with arrivals at any poll.
ArrivalPoint == mpc # "poll" \/ polls = 0 \/ loop = 0

ModemLineSearch ==
    /\ UNCHANGED sessvars
    /\ spc # "ret"
    /\ ArrivalPoint
    /\ ModemLine(SearchLines, MaxLines)
    /\ UNCHANGED <<extbuf, scratch, msgvars, srchvars, echo, txlog, atvars>>

NextSearch == CallSearchfor \/ sim9_searchfor_step \/ sim9_msg_poll \/ ModemLineSearch

SpecSearch == Init /\ [][NextSearch]_vars

(***************************************************************************)
(* The application calls sim9_send_at directly, with echo off (as after    *)
(* sim9_init) or on (as after sim9_on).                                    *)
(***************************************************************************)
InitSendAt == InitDriver /\ Allocated /\ echo \in BOOLEAN /\ imeibuf = FreshImei

TxtCPIN == <<"+", "C", "P", "I", "N", ":", " ", "R", "E", "A", "D", "Y">>

AtLines ==
    {Framed(<<>>), Framed(TxtOK), Framed(TxtERROR), Framed(TxtAT), Framed(TxtCPIN)}

\* the msg buffer of the callers that pass one (pin_check: SOB2)
SOB2 == 20

CallSendAt ==
    /\ UNCHANGED sessvars
    /\ apc = "off"
    /\ \E type \in Shapes :
          sim9_send_at_enter(TxtAT,
              IF type \in {SENDAT_TYPE_MSGOK, SENDAT_TYPE_MSG}
              THEN Fresh(SOB2) ELSE <<>>,
              type)
    /\ UNCHANGED <<rxq, delivered, scratch, msgvars, srchvars, echo>>

ModemLineSendAt ==
    /\ UNCHANGED sessvars
    /\ apc # "ret"
    /\ ArrivalPoint
    /\ ModemLine(AtLines, MaxAtLines)
    /\ UNCHANGED <<extbuf, scratch, msgvars, srchvars, echo, txlog, atvars>>

NextSendAt ==
    \/ CallSendAt
    \/ sim9_send_at_echo
    \/ sim9_send_at_echo_ret
    \/ sim9_send_at_answer
    \/ sim9_send_at_msg_ret
    \/ sim9_send_at_ok_ret
    \/ sim9_searchfor_step
    \/ sim9_msg_poll
    \/ ModemLineSendAt

SpecSendAt == InitSendAt /\ [][NextSendAt]_vars

(***************************************************************************)
(* The driver functions built on sim9_send_at and sim9_searchfor.  The     *)
(* application calls them one after the other; each call of a function to  *)
(* the modem is one step, in which the modem answers what was sent.        *)
(***************************************************************************)
\* the variables of sim9_msg, sim9_searchfor and sim9_send_at taken step by
\* step, which the functions below leave alone
lowvars == <<delivered, extbuf, scratch, msgvars, srchvars, atvars>>

\* memcmp over Len(pat) bytes at buf + off: 0 or nonzero (1).  A byte that
\* was never written may or may not equal the byte it is compared with.
RECURSIVE memcmp_at(_, _, _, _)
memcmp_at(buf, off, pat, i) ==
    IF i > Len(pat) THEN {0}
    ELSE IF off + i > Len(buf) \/ buf[off + i] = JUNK
         THEN {1} \cup memcmp_at(buf, off, pat, i + 1)
    ELSE IF buf[off + i] = pat[i] THEN memcmp_at(buf, off, pat, i + 1)
    ELSE {1}

memcmp(buf, off, pat) == memcmp_at(buf, off, pat, 1)

\* answers of the modem: blank line and text, as [CR][LF]<text>[CR][LF]
AnsOK == <<Framed(<<>>), Framed(TxtOK)>>

AnsERROR == <<Framed(<<>>), Framed(TxtERROR)>>

AnsMsgOK(m) == <<Framed(<<>>), Framed(m), Framed(<<>>), Framed(TxtOK)>>

\* what the modem puts on the line for a command: nothing, or the echo (when
\* the modem echoes) and one of the answers
ModemAnswers(ech, cmd, answers) ==
    {<<>>} \cup {(IF ech THEN <<Framed(cmd)>> ELSE <<>>) \o a : a \in answers}

\* the command sim9_send_at_P hands on, and the log after the call
Cmd(cmd) == PgmCopy(cmd, RxSize)

Sent(cmd) == SendAtLog(txlog, echo, Cmd(cmd))

\* the driver functions of sim9.h that this source file defines
Functions ==
    {"sim9_escape", "pin_check", "imei", "network_registered", "sim9_on",
     "sim9_off", "gprs_connect", "gprs_disconnect", "apn_setup", "sim9_tcpip_on"}

\* the link state and the transparent-mode setting are written by code that
\* is not in this source file (sim9_connect, the application); they are read
\* by sim9_escape and by sim9_tcpip_on
StatusAtCall(name) ==
    IF name = "sim9_escape"
    THEN {[status EXCEPT !.connected = c] : c \in BOOLEAN}
    ELSE IF name = "sim9_tcpip_on"
    THEN {[status EXCEPT !.tsmode = m] : m \in BOOLEAN}
    ELSE {status}

\* the application calls one of the driver functions in F, at most max times
\* in a run; retry and the temp buffer are locals of the function called
Call(F, max) ==
    /\ fpc \in {<<"idle">>, <<"ret">>}
    /\ nops < max
    /\ \E name \in F :
          /\ fn' = name
          /\ fpc' = <<name, "ret">>
          /\ status' \in StatusAtCall(name)
    /\ nops' = nops + 1
    /\ pre' = [errors |-> errors, status |-> status', echo |-> echo]
    /\ prev' = IF fpc = <<"ret">> /\ fn = "pin_check"
               THEN <<[fn |-> fn, calls |-> calls]>>
               ELSE <<>>
    /\ calls' = <<>>
    /\ txlog' = <<>>
    /\ retry' = 0
    /\ fbuf' = <<>>
    /\ UNCHANGED <<rxq, echo, errors, imeibuf, lowvars, memvars>>

\* the application calls a driver function
Application == Call(Functions, MaxOps)

(***************************************************************************)
(* sim9_escape                                                             *)
(***************************************************************************)
\* mutant: one more attempt
escape_retry_four == 3 + 1

\* uint8_t retry=3
escape_retry == 3

\* mutant: the flag is set whatever the link state
EscapeFlagAlways(connected) == TRUE

\* if (status.connected) errors.esc = TRUE; else errors.esc = FALSE
EscapeFlag(connected) == connected

\* entry of sim9_escape
sim9_escape ==
    /\ Head(fpc) = "sim9_escape"
    /\ retry' = escape_retry
    /\ fpc' = <<"escape_attempt">> \o Tail(fpc)
    /\ UNCHANGED <<rxq, echo, txlog, fn, errors, status, imeibuf, fbuf, calls, pre,
                   prev, nops, lowvars, memvars>>

\* while (retry--) and, when connected, the escape token with its waits;
\* with echo the token is terminated and its echo is looked for
sim9_escape_attempt ==
    /\ Head(fpc) = "escape_attempt"
    /\ retry' = (retry - 1) % ByteModulus
    /\ IF retry = 0
       THEN /\ errors' = [errors EXCEPT !.esc = EscapeFlag(status.connected)]
            /\ fpc' = Tail(fpc)
            /\ UNCHANGED <<rxq, txlog>>
       ELSE /\ fpc' = <<"escape_probe">> \o Tail(fpc)
            /\ errors' = errors
            /\ IF ~status.connected THEN UNCHANGED <<rxq, txlog>>
               ELSE IF ~echo
               THEN /\ txlog' = sim9_send_P(txlog, TxtPlus)
                    /\ rxq' = rxq
               ELSE /\ txlog' = sim9_send_P(sim9_send_P(txlog, TxtPlus), TxtCRLF)
                    /\ \E r \in {<<>>, <<Framed(TxtPlus)>>} :
                          rxq' = sim9_searchfor_P_run(rxq \o r, TxtPlus, 30, FALSE,
                                                      <<>>, EQUAL).q
    /\ UNCHANGED <<echo, fn, status, imeibuf, fbuf, calls, pre, prev, nops, lowvars, memvars>>

\* the bare AT probe and what follows it, up to the next loop test
sim9_escape_probe ==
    /\ Head(fpc) = "escape_probe"
    /\ \E r \in ModemAnswers(echo, TxtAT, {AnsOK, AnsERROR}) :
          \E a \in {sim9_send_at_P_run(rxq \o r, echo, TxtAT, <<>>, SENDAT_TYPE_OK)}
          :   /\ rxq' = a.q
              /\ txlog' = SendAtLog(txlog, echo, PgmCopy(TxtAT, RxSize))
              /\ calls' = Append(calls, [cmd |-> TxtAT, ok |-> a.ok,
                                          info |-> status.connected, ans |-> r])
              /\ status' = [status EXCEPT !.connected = ~a.ok]
              /\ IF a.ok
                 THEN /\ errors' = [errors EXCEPT !.esc = EscapeFlag(FALSE)]
                      /\ fpc' = Tail(fpc)
                 ELSE /\ errors' = errors
                      /\ fpc' = <<"escape_attempt">> \o Tail(fpc)
    /\ UNCHANGED <<echo, fn, retry, imeibuf, fbuf, pre, prev, nops, lowvars, memvars>>

(***************************************************************************)
(* pin_check, imei, network_registered                                     *)
(***************************************************************************)
TxtSIMPIN == <<"+", "C", "P", "I", "N", ":", " ", "S", "I", "M", " ", "P", "I", "N">>

\* an unsolicited line after the answer
AnsThenReady(a) == a \o <<Framed(<<>>), Framed(TxtCallReady)>>

AnswersCPIN ==
    {AnsMsgOK(TxtCPIN), AnsMsgOK(TxtSIMPIN), AnsERROR,
     AnsThenReady(AnsMsgOK(TxtCPIN))}

\* errors.pin after the check
PinFlag(old, ready) == ~ready

pin_check ==
    /\ Head(fpc) = "pin_check"
    /\ \E r \in ModemAnswers(echo, Cmd(TxtCmdCPIN), AnswersCPIN) :
          \E a \in {sim9_send_at_P_run(rxq \o r, echo, TxtCmdCPIN, Fresh(SOB2),
                                      SENDAT_TYPE_MSGOK)}
          :   \E c \in (IF a.ok THEN memcmp(a.msg, 0, TxtCPIN) ELSE {1}) :
                /\ rxq' = a.q
                /\ errors' = [errors EXCEPT
                                 !.pin = PinFlag(errors.pin, a.ok /\ c = 0)]
                /\ calls' = Append(calls, [cmd |-> TxtCmdCPIN,
                                            ok |-> a.ok /\ c = 0, info |-> r])
    /\ txlog' = Sent(TxtCmdCPIN)
    /\ fpc' = Tail(fpc)
    /\ UNCHANGED <<echo, fn, retry, status, imeibuf, fbuf, pre, prev, nops, lowvars, memvars>>

\* a 15-digit identity, a 14-digit one
TxtIMEI15 ==
    <<"0", "1", "2", "3", "4", "5", "6", "7", "8", "9", "0", "1", "2", "3", "4">>

TxtIMEI14 == SubSeq(TxtIMEI15, 1, 14)

AnswersCGSN == {AnsMsgOK(TxtIMEI15), AnsMsgOK(TxtIMEI14), AnsERROR}

\* mutant: one more attempt
imei_retry_more == 10 + 1

\* uint8_t retry=10
imei_retry == 10

\* strlen(sim9->imei) > 14
ImeiLongEnough(id) == strlen(id) > 14

\* entry of imei
imei ==
    /\ Head(fpc) = "imei"
    /\ retry' = imei_retry
    /\ imeibuf' = Store(imeibuf, 0, NUL)
    /\ errors' = [errors EXCEPT !.imei = TRUE]
    /\ rxq' = <<>>
    /\ fpc' = <<"imei_attempt">> \o Tail(fpc)
    /\ UNCHANGED <<echo, txlog, fn, status, fbuf, calls, pre, prev, nops, lowvars, memvars>>

\* while (errors.imei && retry--) and its body; the history records whether
\* the command succeeded and left 15 characters or more
imei_attempt ==
    /\ Head(fpc) = "imei_attempt"
    /\ IF ~errors.imei \/ retry = 0
       THEN /\ fpc' = Tail(fpc)
            /\ retry' = IF errors.imei THEN (retry - 1) % ByteModulus ELSE retry
            /\ UNCHANGED <<rxq, txlog, errors, imeibuf, calls>>
       ELSE /\ retry' = retry - 1
            /\ fpc' = fpc
            /\ txlog' = Sent(TxtCmdCGSN)
            /\ \E r \in ModemAnswers(echo, Cmd(TxtCmdCGSN), AnswersCGSN) :
                  \E a \in {sim9_send_at_P_run(rxq \o r, echo, TxtCmdCGSN, imeibuf,
                                                SENDAT_TYPE_MSGOK)} :
                  LET hit == a.ok /\ ImeiLongEnough(CStr(a.msg))
                  IN  /\ rxq' = a.q
                      /\ imeibuf' = a.msg
                      /\ errors' = [errors EXCEPT
                                       !.imei = IF hit THEN FALSE ELSE @]
                      /\ calls' = Append(calls,
                            [cmd |-> TxtCmdCGSN,
                             ok |-> a.ok /\ strlen(CStr(a.msg)) >= 15,
                             info |-> <<>>])
    /\ UNCHANGED <<echo, fn, status, fbuf, pre, prev, nops, lowvars, memvars>>

\* temp buffer
SOB626 == 20

TxtCGREG2 == <<"+", "C", "G", "R", "E", "G", ":", " ", "0", ",", "2">>

AnswersCGREG == {AnsMsgOK(TxtCGREG), AnsMsgOK(TxtCGREG2), AnsERROR}

\* uint8_t retry=5
netreg_retry == 5

\* entry of network_registered
network_registered ==
    /\ Head(fpc) = "network_registered"
    /\ retry' = netreg_retry
    /\ fbuf' = Fresh(SOB626)
    /\ errors' = [errors EXCEPT !.netreg = TRUE]
    /\ fpc' = <<"netreg_attempt">> \o Tail(fpc)
    /\ UNCHANGED <<rxq, echo, txlog, fn, status, imeibuf, calls, pre, prev, nops,
                   lowvars, memvars>>

\* while (errors.netreg && retry--) and its body
netreg_attempt ==
    /\ Head(fpc) = "netreg_attempt"
    /\ IF ~errors.netreg \/ retry = 0
       THEN /\ fpc' = Tail(fpc)
            /\ retry' = IF errors.netreg THEN (retry - 1) % ByteModulus ELSE retry
            /\ fbuf' = <<>>
            /\ UNCHANGED <<rxq, txlog, errors, calls>>
       ELSE /\ retry' = retry - 1
            /\ fpc' = fpc
            /\ txlog' = Sent(TxtCmdCGREG)
            /\ \E r \in ModemAnswers(echo, Cmd(TxtCmdCGREG), AnswersCGREG) :
                  \E a \in {sim9_send_at_P_run(rxq \o r, echo, TxtCmdCGREG, fbuf,
                                              SENDAT_TYPE_MSGOK)}
                  :   \E c \in (IF a.ok THEN memcmp(a.msg, 0, TxtCGREG) ELSE {1}) :
                        /\ rxq' = a.q
                        /\ fbuf' = a.msg
                        /\ errors' = [errors EXCEPT
                                         !.netreg = IF c = 0 THEN FALSE ELSE @]
                        /\ calls' = Append(calls, [cmd |-> TxtCmdCGREG,
                                                    ok |-> c = 0, info |-> <<>>])
    /\ UNCHANGED <<echo, fn, status, imeibuf, pre, prev, nops, lowvars, memvars>>

(***************************************************************************)
(* sim9_off                                                                *)
(***************************************************************************)
sim9_off ==
    /\ Head(fpc) = "sim9_off"
    /\ txlog' = sim9_send_P(txlog, TxtCmdCPOWD)
    /\ \E r \in {<<>>, <<Framed(<<>>), Framed(TxtPowerDown)>>} :
          \E s \in {sim9_searchfor_P_run(rxq \o r, TxtPowerDown, 5, FALSE, <<>>,
                                        RELAX)}
          :   /\ rxq' = s.q
              /\ status' = [status EXCEPT !.ready = IF s.ok THEN FALSE ELSE @]
              /\ errors' = [errors EXCEPT !.off = IF s.ok THEN @ ELSE TRUE]
              /\ calls' = Append(calls, [cmd |-> TxtCmdCPOWD, ok |-> s.ok,
                                          info |-> <<>>])
    /\ fpc' = Tail(fpc)
    /\ UNCHANGED <<echo, fn, retry, imeibuf, fbuf, pre, prev, nops, lowvars, memvars>>

(***************************************************************************)
(* check_cgatt, gprs_connect, gprs_disconnect                              *)
(***************************************************************************)
SIZEOFBUFFER == 15

TxtCGATT0 == <<"+", "C", "G", "A", "T", "T", ":", " ", "0">>

AnswersCGATT == {AnsMsgOK(TxtCGATT), AnsMsgOK(TxtCGATT0), AnsERROR}

\* retry = 5
gprs_retry == 5

\* check_cgatt: the status and the errors it leaves, for each answer
check_cgatt ==
    /\ txlog' = Sent(TxtCmdCGATT)
    /\ \E r \in ModemAnswers(echo, Cmd(TxtCmdCGATT), AnswersCGATT) :
          \E a \in {sim9_send_at_P_run(rxq \o r, echo, TxtCmdCGATT,
                                      Fresh(SIZEOFBUFFER), SENDAT_TYPE_MSGOK)}
          :   \E c \in (IF a.ok THEN memcmp(a.msg, 0, TxtCGATT) ELSE {1}) :
                /\ rxq' = a.q
                /\ status' = [status EXCEPT !.gprs = IF a.ok THEN c = 0 ELSE @]
                /\ errors' = [errors EXCEPT !.gprs = IF a.ok THEN @ ELSE TRUE]
    /\ calls' = calls

\* mutant: the poll goes on until the state is the wanted one
PollAgainAlways(wanted, left) == ~wanted

\* the while of the do-while: wanted is the state polled for
PollAgain(wanted, left) == ~wanted /\ left # 0

\* mutant: errors.all = 0
gprs_entry_all(e) == NoErrors

\* sim9->errors.gprs = FALSE
gprs_entry(e) == [e EXCEPT !.gprs = FALSE]

\* the attach or detach command: errors.gprs = FALSE, the command, and on
\* success retry = 5
gprs_command(cmd, poll) ==
    /\ txlog' = Sent(cmd)
    /\ \E r \in ModemAnswers(echo, Cmd(cmd), {AnsOK, AnsERROR}) :
          \E a \in {sim9_send_at_P_run(rxq \o r, echo, cmd, <<>>, SENDAT_TYPE_OK)}
          :   /\ rxq' = a.q
              /\ errors' = [gprs_entry(errors) EXCEPT !.gprs = IF a.ok THEN @ ELSE TRUE]
              /\ calls' = Append(calls, [cmd |-> cmd, ok |-> a.ok, info |-> <<>>])
              /\ retry' = IF a.ok THEN gprs_retry ELSE retry
              /\ fpc' = IF a.ok THEN <<poll>> \o Tail(fpc) ELSE Tail(fpc)
    /\ UNCHANGED <<echo, fn, status, imeibuf, fbuf, pre, prev, nops, lowvars, memvars>>

\* one check_cgatt and the loop test after it
gprs_poll(wanted) ==
    /\ check_cgatt
    /\ retry' = IF status'.gprs = wanted THEN retry ELSE (retry - 1) % ByteModulus
    /\ fpc' = IF PollAgain(status'.gprs = wanted, retry) THEN fpc ELSE Tail(fpc)
    /\ UNCHANGED <<echo, fn, imeibuf, fbuf, pre, prev, nops, lowvars, memvars>>

gprs_connect ==
    /\ Head(fpc) = "gprs_connect"
    /\ gprs_command(TxtCmdAttach, "gprs_connect_poll")

gprs_connect_poll ==
    /\ Head(fpc) = "gprs_connect_poll"
    /\ gprs_poll(TRUE)

gprs_disconnect ==
    /\ Head(fpc) = "gprs_disconnect"
    /\ gprs_command(TxtCmdDetach, "gprs_disconnect_poll")

gprs_disconnect_poll ==
    /\ Head(fpc) = "gprs_disconnect_poll"
    /\ gprs_poll(FALSE)

(***************************************************************************)
(* apn_setup                                                               *)
(***************************************************************************)
SIZEOF_S == 30

TxtCOPSTim == <<"+", "C", "O", "P", "S", ":", " ", "0", ",", "0", ",", "\"", "I", " ", "T", "I", "M", "\"">>

TxtCOPSVoda == <<"+", "C", "O", "P", "S", ":", " ", "0", ",", "0", ",", "\"", "v", "o", "d", "a", "f", "o", "n", "e", " ", "I", "T", "\"">>

TxtCOPSWind == <<"+", "C", "O", "P", "S", ":", " ", "0", ",", "0", ",", "\"", "I", " ", "W", "I", "N", "D", "\"">>

TxtCOPSNone == <<"+", "C", "O", "P", "S", ":", " ", "0">>

AnswersCOPS ==
    {AnsMsgOK(TxtCOPSTim), AnsMsgOK(TxtCOPSVoda), AnsMsgOK(TxtCOPSWind),
     AnsMsgOK(TxtCOPSNone), AnsERROR}

\* the selector from the two memcmp results
ProviderOf(tim, voda) == IF tim = 0 THEN 3 ELSE IF voda = 0 THEN 2 ELSE 1

apn_setup ==
    /\ Head(fpc) = "apn_setup"
    /\ txlog' = Sent(TxtCmdCOPS)
    /\ \E r \in ModemAnswers(echo, Cmd(TxtCmdCOPS), AnswersCOPS) :
          \E a \in {sim9_send_at_P_run(rxq \o r, echo, TxtCmdCOPS, <<>>,
                                        SENDAT_TYPE_NONE)} :
          \E s \in {sim9_searchfor_run(a.q, TxtCOPS, 5, TRUE, Fresh(SIZEOF_S),
                                       RELAX)} :
          \E k \in {sim9_searchfor_P_run(s.q, TxtOK, 5, FALSE, <<>>, RELAX)} :
              \E tim \in memcmp(s.buf, 12, TxtTIM),
                 voda \in memcmp(s.buf, 13, TxtOdafo) :
                /\ rxq' = IF s.ok THEN k.q ELSE s.q
                /\ status' = [status EXCEPT
                                 !.provider = IF s.ok THEN ProviderOf(tim, voda)
                                              ELSE 0]
                /\ errors' = [errors EXCEPT !.apn = IF s.ok THEN @ ELSE TRUE]
                /\ calls' = Append(calls, [cmd |-> TxtCmdCOPS, ok |-> s.ok,
                                            info |-> CStr(s.buf)])
    /\ fpc' = Tail(fpc)
    /\ UNCHANGED <<echo, fn, retry, imeibuf, fbuf, pre, prev, nops, lowvars, memvars>>

(***************************************************************************)
(* gprs_wireless_connection, sim9_tcpip_on                                 *)
(***************************************************************************)
\* the returns of one sim9_send_at_P call, one for each answer of the modem
AtResults(cmd, msgmem, type, answers) ==
    {sim9_send_at_P_run(rxq \o r, echo, cmd, msgmem, type) :
        r \in ModemAnswers(echo, Cmd(cmd), answers)}

\* a command whose result the caller drops
AtIgnored(cmd) ==
    /\ txlog' = Sent(cmd)
    /\ \E a \in AtResults(cmd, <<>>, SENDAT_TYPE_OK, {AnsOK, AnsERROR}) :
          rxq' = a.q
    /\ calls' = calls

TxtIP == <<"1", "0", ".", "0", ".", "0", ".", "1">>

\* mutant: a later stage runs whatever the flags
StageRunsAlways(e) == TRUE

\* if (!sim9->errors.all)
StageRuns(e) == ~errors_all(e)

\* errors.tcpip = FALSE and the configuration query
sim9_tcpip_on ==
    /\ Head(fpc) = "sim9_tcpip_on"
    /\ errors' = [errors EXCEPT !.tcpip = FALSE]
    /\ AtIgnored(<<"A", "T", "+", "C", "I", "P", "C", "C", "F", "G", "?">>)
    /\ fpc' = <<"tcpip_mode">> \o Tail(fpc)
    /\ UNCHANGED <<echo, fn, retry, status, imeibuf, fbuf, pre, prev, nops, lowvars, memvars>>

\* the transparent mode, then gprs_connect is called
tcpip_mode ==
    /\ Head(fpc) = "tcpip_mode"
    \* AT+CIPMODE=1 or AT+CIPMODE=0
    /\ AtIgnored(<<"A", "T", "+", "C", "I", "P", "M", "O", "D", "E", "=">>
                    \o (IF status.tsmode THEN <<"1">> ELSE <<"0">>))
    /\ fpc' = <<"gprs_connect", "tcpip_apn">> \o Tail(fpc)
    /\ UNCHANGED <<echo, fn, retry, errors, status, imeibuf, fbuf, pre, prev, nops,
                   lowvars, memvars>>

\* if (status.gprs) apn_setup()
tcpip_apn ==
    /\ Head(fpc) = "tcpip_apn"
    /\ fpc' = (IF status.gprs THEN <<"apn_setup">> ELSE <<>>)
                  \o <<"tcpip_start">> \o Tail(fpc)
    /\ UNCHANGED <<rxq, echo, txlog, fn, retry, errors, status, imeibuf, fbuf,
                   calls, pre, prev, nops, lowvars, memvars>>

\* the start-task command of each provider
StartTask ==
    <<<<"A", "T", "+", "C", "S", "T", "T", "=", "\"", "S", "I", "M", "9", "_",
      "A", "P", "N", "_", "S", "I", "T", "E", "\"", ",", "\"", "S", "I", "M",
      "9", "_", "A", "P", "N", "_", "U", "S", "E", "R", "\"", ",", "\"", "S",
      "I", "M", "9", "_", "A", "P", "N", "_", "P", "A", "S", "S", "W", "O",
      "R", "D", "\"">>,
      <<"A", "T", "+", "C", "S", "T", "T", "=", "\"", "w", "e", "b", ".", "o",
      "m", "n", "i", "t", "e", "l", ".", "i", "t", "\"">>,
      <<"A", "T", "+", "C", "S", "T", "T", "=", "\"", "i", "b", "o", "x", ".",
      "t", "i", "m", ".", "i", "t", "\"">>>>

\* mutant: an unknown provider raises no flag
UnknownProviderIgnored(e) == e

\* default: errors.apn = TRUE
UnknownProvider(e) == [e EXCEPT !.apn = TRUE]

\* switch (status.provider)
tcpip_start ==
    /\ Head(fpc) = "tcpip_start"
    /\ IF status.provider \in 1..3
       THEN /\ AtIgnored(StartTask[status.provider])
            /\ errors' = errors
       ELSE /\ errors' = UnknownProvider(errors)
            /\ UNCHANGED <<rxq, txlog, calls>>
    /\ fpc' = <<"tcpip_bearer">> \o Tail(fpc)
    /\ UNCHANGED <<echo, fn, retry, status, imeibuf, fbuf, pre, prev, nops, lowvars, memvars>>

\* if (!errors.all) gprs_wireless_connection()
tcpip_bearer ==
    /\ Head(fpc) = "tcpip_bearer"
    /\ IF StageRuns(errors)
       THEN /\ txlog' = Sent(TxtCmdCIICR)
            /\ \E a \in AtResults(TxtCmdCIICR, <<>>, SENDAT_TYPE_OK,
                                   {AnsOK, AnsERROR}) :
                  /\ rxq' = a.q
                  /\ errors' = [errors EXCEPT !.tcpip = IF a.ok THEN @ ELSE TRUE]
                  /\ calls' = Append(calls, [cmd |-> TxtCmdCIICR, ok |-> a.ok,
                                              info |-> <<>>])
       ELSE UNCHANGED <<rxq, txlog, errors, calls>>
    /\ fpc' = <<"tcpip_addr">> \o Tail(fpc)
    /\ UNCHANGED <<echo, fn, retry, status, imeibuf, fbuf, pre, prev, nops, lowvars, memvars>>

\* if (!errors.all) the address query, into a buffer that is freed
tcpip_addr ==
    /\ Head(fpc) = "tcpip_addr"
    /\ IF StageRuns(errors)
       THEN /\ txlog' = Sent(TxtCmdCIFSR)
            /\ \E a \in AtResults(TxtCmdCIFSR, Fresh(30), SENDAT_TYPE_MSG,
                                   {<<Framed(<<>>), Framed(TxtIP)>>, AnsERROR}) :
                  rxq' = a.q
       ELSE UNCHANGED <<rxq, txlog>>
    /\ fpc' = Tail(fpc)
    /\ UNCHANGED <<echo, fn, retry, errors, status, imeibuf, fbuf, calls, pre, prev,
                   nops, lowvars, memvars>>

(***************************************************************************)
(* sim9_on                                                                 *)
(***************************************************************************)
\* #define SIM9_ECHO_ENA
SIM9_ECHO_ENA == TRUE

\* the flags are cleared, the modem is pulsed on, the receive buffer is
\* cleared and the first probe is sent
sim9_on ==
    /\ Head(fpc) = "sim9_on"
    /\ status' = StatusZero
    /\ echo' = FALSE
    /\ errors' = NoErrors
    /\ txlog' = SendAtLog(txlog, FALSE, Cmd(TxtAT))
    /\ \E r \in ModemAnswers(FALSE, Cmd(TxtAT), {AnsOK, AnsERROR}) :
          \E a \in {sim9_send_at_P_run(r, FALSE, TxtAT, <<>>, SENDAT_TYPE_OK)}
          :   rxq' = a.q
    /\ fpc' = <<"on_ipr">> \o Tail(fpc)
    /\ UNCHANGED <<fn, retry, imeibuf, fbuf, calls, pre, prev, nops, lowvars, memvars>>

\* the commands of sim9_on whose result is dropped, and what follows each
OnCommands ==
    [
     \* AT+IPR=9600
     on_ipr |->
        [cmd |-> <<"A", "T", "+", "I", "P", "R", "=", "9", "6", "0", "0">>,
         next |-> "on_ciurc"],
     \* AT+CIURC=1
     on_ciurc |->
        [cmd |-> <<"A", "T", "+", "C", "I", "U", "R", "C", "=", "1">>,
         next |-> "on_ready"],
     \* ATE1 or ATE0
     on_echo |->
        [cmd |-> IF echo THEN <<"A", "T", "E", "1">>
                 ELSE <<"A", "T", "E", "0">>,
         next |-> "on_sleds1"],
     \* AT+SLEDS=1,53,790
     on_sleds1 |->
        [cmd |-> <<"A", "T", "+", "S", "L", "E", "D", "S", "=", "1", ",",
                 "5", "3", ",", "7", "9", "0">>,
         next |-> "on_sleds2"],
     \* AT+SLEDS=2,53,2990
     on_sleds2 |->
        [cmd |-> <<"A", "T", "+", "S", "L", "E", "D", "S", "=", "2", ",",
                 "5", "3", ",", "2", "9", "9", "0">>,
         next |-> "on_sleds3"],
     \* AT+SLEDS=3,53,287
     on_sleds3 |->
        [cmd |-> <<"A", "T", "+", "S", "L", "E", "D", "S", "=", "3", ",",
                 "5", "3", ",", "2", "8", "7">>,
         next |-> "on_netlight"],
     on_netlight |-> [cmd |-> TxtCmdCNETLIGHT, next |-> "on_pin"]
    ]

sim9_on_command ==
    /\ Head(fpc) \in DOMAIN OnCommands
    /\ AtIgnored(OnCommands[Head(fpc)].cmd)
    /\ fpc' = <<OnCommands[Head(fpc)].next>> \o Tail(fpc)
    /\ UNCHANGED <<echo, fn, retry, errors, status, imeibuf, fbuf, pre, prev, nops,
                   lowvars, memvars>>

\* the wait for "Call Ready", then sim9_clear_rx_buff
sim9_on_ready ==
    /\ Head(fpc) = "on_ready"
    /\ \E r \in {<<>>, <<Framed(<<>>), Framed(TxtCallReady)>>} :
          \E s \in {sim9_searchfor_P_run(rxq \o r, TxtCallReady, 60, FALSE, <<>>,
                                        EQUAL)}
          :   rxq' = SubSeq(s.q, 1, 0)
    /\ fpc' = <<"on_factory">> \o Tail(fpc)
    /\ UNCHANGED <<echo, txlog, fn, retry, errors, status, imeibuf, fbuf, calls,
                   pre, prev, nops, lowvars, memvars>>

\* the factory reset, then status.echo = 1
sim9_on_factory ==
    /\ Head(fpc) = "on_factory"
    /\ txlog' = Sent(TxtCmdFactory)
    /\ \E a \in AtResults(TxtCmdFactory, <<>>, SENDAT_TYPE_OK, {AnsOK, AnsERROR}) :
          /\ rxq' = a.q
          /\ errors' = [errors EXCEPT !.init = IF a.ok THEN @ ELSE TRUE]
          /\ calls' = Append(calls, [cmd |-> TxtCmdFactory, ok |-> a.ok,
                                      info |-> <<>>])
    /\ echo' = IF SIM9_ECHO_ENA THEN TRUE ELSE echo
    /\ fpc' = <<"on_echo">> \o Tail(fpc)
    /\ UNCHANGED <<fn, retry, status, imeibuf, fbuf, pre, prev, nops, lowvars, memvars>>

\* the stages that run only while errors.all is 0, and what follows each
OnStages ==
    [on_pin |-> [call |-> "pin_check", next |-> <<"on_imei">>],
     on_imei |-> [call |-> "imei", next |-> <<"on_netreg">>],
     on_netreg |-> [call |-> "network_registered", next |-> <<>>]]

sim9_on_stage ==
    /\ Head(fpc) \in DOMAIN OnStages
    /\ fpc' = (IF StageRuns(errors) THEN <<OnStages[Head(fpc)].call>> ELSE <<>>)
                  \o OnStages[Head(fpc)].next \o Tail(fpc)
    /\ UNCHANGED <<rxq, echo, txlog, fn, retry, errors, status, imeibuf, fbuf,
                   calls, pre, prev, nops, lowvars, memvars>>

(***************************************************************************)
(* The application calls the driver functions.                             *)
(***************************************************************************)
\* sim9->imei after an identity stage that read a 15-digit identity
ReadImei ==
    sim9_msg_run(<<Framed(TxtIMEI15)>>, FreshImei, IMEI_SIZE, 1).buf

\* the session starts after sim9_init, or after a sim9_on that met a modem
\* answering every command: echo on, no error flag, the identity read, no
\* line left to read
InitSession ==
    /\ InitDriver
    /\ Allocated
    /\ \/ echo = FALSE /\ imeibuf = FreshImei
       \/ echo = TRUE /\ imeibuf = ReadImei

NextSession ==
    \/ Application
    \/ sim9_escape
    \/ sim9_escape_attempt
    \/ sim9_escape_probe
    \/ pin_check
    \/ imei
    \/ imei_attempt
    \/ network_registered
    \/ netreg_attempt
    \/ sim9_off
    \/ gprs_connect
    \/ gprs_connect_poll
    \/ gprs_disconnect
    \/ gprs_disconnect_poll
    \/ apn_setup
    \/ sim9_tcpip_on
    \/ tcpip_mode
    \/ tcpip_apn
    \/ tcpip_start
    \/ tcpip_bearer
    \/ tcpip_addr
    \/ sim9_on
    \/ sim9_on_command
    \/ sim9_on_ready
    \/ sim9_on_factory
    \/ sim9_on_stage

SpecSession == InitSession /\ [][NextSession]_vars

\* the functions of one stage each, called several times in a row
Stages ==
    {"sim9_escape", "pin_check", "imei", "network_registered", "sim9_off",
     "gprs_connect", "gprs_disconnect", "apn_setup"}

ApplicationStages == Call(Stages, MaxRepeat)

NextStages ==
    \/ ApplicationStages
    \/ sim9_escape
    \/ sim9_escape_attempt
    \/ sim9_escape_probe
    \/ pin_check
    \/ imei
    \/ imei_attempt
    \/ network_registered
    \/ netreg_attempt
    \/ sim9_off
    \/ gprs_connect
    \/ gprs_connect_poll
    \/ gprs_disconnect
    \/ gprs_disconnect_poll
    \/ apn_setup

SpecStages == InitSession /\ [][NextStages]_vars

(***************************************************************************)
(* Termination.  The application either calls sim9_send_at directly, with  *)
(* sim9_searchfor and sim9_msg taken step by step inside it while the      *)
(* modem completes lines, or calls the functions that escape, power on and *)
(* open the bearer.  The driver is one thread of blocking code whose waits *)
(* are finite delays: a step of it that can be taken is taken.             *)
(***************************************************************************)
Sequencers == {"sim9_escape", "sim9_on", "sim9_tcpip_on"}

\* one of them is called, once
ApplicationSequencers == apc = "off" /\ delivered = 0 /\ Call(Sequencers, 1)

DirectSendAt == fpc = <<"idle">> /\ CallSendAt

\* what the modem may send around the command: blank lines, ERROR, OK and a
\* line that is the echo when the modem echoes and matches nothing otherwise
StreamLines == {Framed(<<>>), Framed(TxtERROR), Framed(TxtOK), Framed(TxtAT)}

ModemLineDirect ==
    /\ UNCHANGED sessvars
    /\ fpc = <<"idle">>
    /\ apc # "ret"
    /\ ArrivalPoint
    /\ ModemLine(StreamLines, MaxLines)
    /\ UNCHANGED <<extbuf, scratch, msgvars, srchvars, echo, txlog, atvars>>

\* the steps of the driver itself
Driver ==
    \/ sim9_send_at_echo
    \/ sim9_send_at_echo_ret
    \/ sim9_send_at_answer
    \/ sim9_send_at_msg_ret
    \/ sim9_send_at_ok_ret
    \/ sim9_searchfor_step
    \/ sim9_msg_poll
    \/ sim9_escape
    \/ sim9_escape_attempt
    \/ sim9_escape_probe
    \/ pin_check
    \/ imei
    \/ imei_attempt
    \/ network_registered
    \/ netreg_attempt
    \/ gprs_connect
    \/ gprs_connect_poll
    \/ apn_setup
    \/ sim9_tcpip_on
    \/ tcpip_mode
    \/ tcpip_apn
    \/ tcpip_start
    \/ tcpip_bearer
    \/ tcpip_addr
    \/ sim9_on
    \/ sim9_on_command
    \/ sim9_on_ready
    \/ sim9_on_factory
    \/ sim9_on_stage

NextTermination ==
    \/ ApplicationSequencers
    \/ DirectSendAt
    \/ ModemLineDirect
    \/ Driver

SpecTermination == InitSession /\ [][NextTermination]_vars /\ WF_vars(Driver)


(***************************************************************************)
(* Ownership of the fields.  The application calls sim9_send_at directly,  *)
(* or calls, several times in a row, the functions that own one domain of  *)
(* the status and error fields each.                                       *)
(***************************************************************************)
Owners == {"sim9_escape", "pin_check", "gprs_connect", "gprs_disconnect"}

ApplicationOwners == apc = "off" /\ delivered = 0 /\ Call(Owners, MaxRepeat)

NextOwners ==
    \/ ApplicationOwners
    \/ DirectSendAt
    \/ ModemLineDirect
    \/ sim9_send_at_echo
    \/ sim9_send_at_echo_ret
    \/ sim9_send_at_answer
    \/ sim9_send_at_msg_ret
    \/ sim9_send_at_ok_ret
    \/ sim9_searchfor_step
    \/ sim9_msg_poll
    \/ sim9_escape
    \/ sim9_escape_attempt
    \/ sim9_escape_probe
    \/ pin_check
    \/ gprs_connect
    \/ gprs_connect_poll
    \/ gprs_disconnect
    \/ gprs_disconnect_poll

SpecOwners == InitSession /\ [][NextOwners]_vars

(***************************************************************************)
(* Power cycles.  The application switches the modem on and off, several   *)
(* times in a row.                                                         *)
(***************************************************************************)
PowerCycle == {"sim9_on", "sim9_off"}

ApplicationPower == Call(PowerCycle, MaxRepeat)

NextPower ==
    \/ ApplicationPower
    \/ sim9_on
    \/ sim9_on_command
    \/ sim9_on_ready
    \/ sim9_on_factory
    \/ sim9_on_stage
    \/ pin_check
    \/ imei
    \/ imei_attempt
    \/ network_registered
    \/ netreg_attempt
    \/ sim9_off

SpecPower == InitSession /\ [][NextPower]_vars

(***************************************************************************)
(* sim9_init, sim9_shut.  The application creates the session, uses it and *)
(* tears it down, over and over.  It hands sim9_shut, and the functions in *)
(* between, only a session that sim9_init returned and that was not torn   *)
(* down since: what they do to freed memory is undefined.                  *)
(***************************************************************************)
\* calls of the application in one run
MaxLife == MaxRepeat + 2

\* at start-up the global is NULL and there is no session
InitStartup ==
    /\ InitDriver
    /\ sim9 = 0 /\ live = {} /\ handle = 0
    /\ echo = FALSE
    /\ imeibuf = <<>>

\* if (!sim9) the session is allocated and cleared; return(sim9)
sim9_init ==
    /\ fpc \in {<<"idle">>, <<"ret">>}
    /\ nops < MaxLife
    /\ nops' = nops + 1
    /\ fn' = "sim9_init"
    /\ fpc' = <<"ret">>
    /\ IF sim9 = 0
       THEN /\ sim9' = nops + 1
            /\ live' = live \cup {nops + 1}
            /\ status' = StatusZero
            /\ echo' = FALSE
            /\ errors' = NoErrors
            /\ imeibuf' = FreshImei
            /\ rxq' = <<>>
       ELSE UNCHANGED <<sim9, live, status, echo, errors, imeibuf, rxq>>
    /\ handle' = sim9'
    /\ pre' = [errors |-> errors, status |-> status, echo |-> echo]
    /\ prev' = IF fn = "sim9_shut" THEN <<[fn |-> fn, calls |-> calls]>> ELSE <<>>
    /\ calls' = <<>>
    /\ txlog' = <<>>
    /\ UNCHANGED <<retry, fbuf, lowvars>>

\* the transport is shut and the allocations are freed; the global keeps
\* its value
sim9_shut ==
    /\ fpc \in {<<"idle">>, <<"ret">>}
    /\ nops < MaxLife
    /\ sim9 \in live /\ handle = sim9
    /\ nops' = nops + 1
    /\ fn' = "sim9_shut"
    /\ fpc' = <<"ret">>
    /\ live' = live \ {sim9}
    /\ sim9' = sim9
    /\ handle' = 0
    /\ rxq' = <<>>
    /\ pre' = [errors |-> errors, status |-> status, echo |-> echo]
    /\ prev' = <<>>
    /\ calls' = <<>>
    /\ txlog' = <<>>
    /\ UNCHANGED <<echo, errors, status, imeibuf, retry, fbuf, lowvars>>

\* the functions called on the session in between
ApplicationLife ==
    /\ sim9 \in live /\ handle = sim9
    /\ Call({"pin_check", "sim9_off"}, MaxLife)

NextLife ==
    \/ sim9_init
    \/ sim9_shut
    \/ ApplicationLife
    \/ pin_check
    \/ sim9_off

SpecLife == InitStartup /\ [][NextLife]_vars

(***************************************************************************)
(* Properties of sim9_msg.                                                 *)
(***************************************************************************)
Last(seq) == seq[Len(seq)]

\* the buffer the current sim9_msg call fills
MsgBuffer == IF mdst = "ext" THEN extbuf ELSE scratch

\* C5: for every timeout t >= 1 and every capacity, a call during which no
\* line of 3 or more bytes is dequeued returns 0; and in every call every
\* offset of the buffer that is written lies in 0 .. capacity-1.
Thm_C5 ==
    /\ (mpc = "ret" /\ mtimeout >= 1 /\ (\A i \in 1..Len(mlines) : Len(mlines[i]) < 3))
          => mlen = 0
    /\ mwrites \subseteq 0 .. msize - 1

\* a call with t >= 1 that dequeued (and wrote) only a short line and
\* returned 0 after its whole budget
Wit_C5 ==
    /\ mpc = "ret" /\ mtimeout >= 1 /\ mlen = 0
    /\ mlines # <<>> /\ mwrites # {}
    /\ \A i \in 1..Len(mlines) : Len(mlines[i]) < 3

\* C6: the return value is 0 or at least 3; a short line does not end the
\* call: 0 is returned only once the poll budget of the timeout is used up.
Thm_C6 ==
    mpc = "ret" =>
        /\ mlen = 0 \/ mlen >= 3
        /\ mlen = 0 => polls >= mtimeout * LoopsPerSecond

\* a bare terminator was dequeued and dropped, and a later line returned
Wit_C6 ==
    /\ mpc = "ret" /\ mlen >= 3
    /\ Len(mlines) >= 2 /\ Len(mlines[1]) < 3

\* C7 as stated: the call returns at the first dequeued line of length
\* L >= 3, returns L, and the buffer holds NUL at offset L-2 after the first
\* L-2 bytes of the line.
Cex_C7 ==
    (mpc = "ret" /\ mlines # <<>> /\ Len(Last(mlines)) >= 3) =>
        LET L == Len(Last(mlines))
        IN  /\ mlen = L
            /\ L <= Len(MsgBuffer)
            /\ MsgBuffer[L - 1] = NUL
            /\ SubSeq(MsgBuffer, 1, L - 2) = SubSeq(Last(mlines), 1, L - 2)

\* C7 amended: a dequeued line of length L is cut to n = min(L, capacity)
\* bytes; when n >= 3 the call returns n and the buffer holds NUL at offset
\* n-2 after the first n-2 bytes of the line (n = L when the line fits);
\* every line dequeued before it was cut to fewer than 3 bytes.  The line
\* "OK\r\n" with timeout 1 and capacity >= 4 returns 4 and reads "OK".
Thm_C7 ==
    /\ (mpc = "ret" /\ mlines # <<>> /\ Min(Len(Last(mlines)), msize) >= 3) =>
          LET n == Min(Len(Last(mlines)), msize)
          IN  /\ mlen = n
              /\ MsgBuffer[n - 1] = NUL
              /\ SubSeq(MsgBuffer, 1, n - 2) = SubSeq(Last(mlines), 1, n - 2)
    /\ mpc # "off" =>
          \A i \in 1..Len(mlines) - 1 : Min(Len(mlines[i]), msize) < 3
    /\ (mpc = "ret" /\ mlines # <<>> /\ Last(mlines) = Framed(TxtOK)
            /\ mtimeout = 1 /\ msize >= 4) =>
          /\ mlen = 4
          /\ SubSeq(MsgBuffer, 1, 3) = <<"O", "K", NUL>>

\* "OK\r\n" retrieved with timeout 1
Wit_C7 ==
    /\ mpc = "ret" /\ mtimeout = 1 /\ mlen = 4
    /\ mlines # <<>> /\ Last(mlines) = Framed(TxtOK)

\* C8: a call with timeout t performs at most t * 100 poll iterations.
Cex_C8 == polls <= mtimeout * LoopsPerSecond

\* C9: a call with a capacity below 2 returns 0 whatever is ready, and
\* writes at no negative offset and at no offset outside the capacity.
Thm_C9 ==
    msize < 2 =>
        /\ mpc = "ret" => mlen = 0
        /\ \A off \in mwrites : off >= 0 /\ off < msize

\* a capacity-1 call that dequeued a line of 3 or more bytes
Wit_C9 ==
    /\ mpc = "ret" /\ msize = 1 /\ mlen = 0
    /\ \E i \in 1..Len(mlines) : Len(mlines[i]) >= 3

(***************************************************************************)
(* Properties of sim9_searchfor.                                           *)
(***************************************************************************)
Max(a, b) == IF a > b THEN a ELSE b

\* the message a line becomes in a buffer of the given capacity: cut to the
\* capacity, less the two bytes of the terminator
Received(line, size) == SubSeq(line, 1, Min(Len(line), size) - 2)

\* the message examined last
LastMsg == Received(slast[1].line, ssize)

IsPrefix(p, m) == Len(p) <= Len(m) /\ SubSeq(m, 1, Len(p)) = p

Occurs(p, m) ==
    \E i \in 1..Len(m) + 1 :
        i + Len(p) - 1 <= Len(m) /\ SubSeq(m, i, i + Len(p) - 1) = p

\* C1: a search makes at most max(count, 1) sim9_msg calls.
Cex_C1 == spc # "off" => attempts <= Max(scount0, 1)

\* C2: in modes EEQUAL and ERELAX a message equal to "ERROR" that does not
\* match ends the search at once with FALSE (no further sim9_msg call);
\* in modes EQUAL and RELAX it costs one attempt and, while count remains,
\* sim9_msg is called again.
Thm_C2 ==
    (spc # "off" /\ slast # <<>> /\ LastMsg = TxtERROR /\ ~slast[1].ok) =>
        /\ stype \in {EEQUAL, ERELAX} =>
              spc = "ret" /\ ~sok /\ attempts = slast[1].att
        /\ (stype \in {EQUAL, RELAX} /\ slast[1].cnt > 0) =>
              attempts > slast[1].att

\* "+CGATT: 1" sought error-aware, "ERROR" received with count remaining
Wit_C2 ==
    /\ spc = "ret" /\ stype \in {EEQUAL, ERELAX} /\ spat = TxtCGATT
    /\ slast # <<>> /\ LastMsg = TxtERROR /\ slast[1].cnt > 0
    /\ ~sok

\* C3: in mode ESTRICT a message equal to "ERROR" that does not match ends
\* the search at once with FALSE.
Cex_C3 ==
    (spc # "off" /\ stype = ESTRICT /\ slast # <<>> /\ LastMsg = TxtERROR
        /\ ~slast[1].ok) =>
        spc = "ret" /\ ~sok /\ attempts = slast[1].att

ShapeCheck ==
    CASE atype = SENDAT_TYPE_NONE -> TRUE
      [] atype = SENDAT_TYPE_OK -> okres = "pass"
      [] atype = SENDAT_TYPE_MSGOK -> msgres = "pass" /\ okres = "pass"
      [] atype = SENDAT_TYPE_MSG -> msgres = "pass"

\* C10: sim9_send_at returns TRUE exactly when the echo search (made
\* exactly when status.echo is set) passed and the checks of the shape
\* passed: none for NONE, the error-aware search for "OK" for OK, the payload
\* retrieval and after it the search for "OK" for MSGOK, the payload
\* retrieval alone for MSG; with echo off and shape OK, a search that finds
\* the modem's "OK" gives TRUE.
Thm_C10 ==
    /\ apc = "ret" =>
          /\ aok <=> ((echo => echores = "pass") /\ ShapeCheck)
          /\ (echores # "none") <=> echo
          /\ atype = SENDAT_TYPE_NONE => (msgres = "none" /\ okres = "none")
          /\ atype = SENDAT_TYPE_OK => msgres = "none"
          /\ atype = SENDAT_TYPE_MSG => okres = "none"
    /\ (apc = "ok" \/ okres # "none") =>
          /\ stype = EEQUAL /\ spat = TxtOK
          /\ atype = SENDAT_TYPE_MSGOK => msgres = "pass"
    /\ (apc = "ret" /\ ~echo /\ atype = SENDAT_TYPE_OK /\ slast # <<>>
            /\ LastMsg = TxtOK) => aok

\* echo off, shape OK, the modem answered "OK": TRUE
Wit_C10 ==
    /\ apc = "ret" /\ ~echo /\ atype = SENDAT_TYPE_OK /\ aok
    /\ slast # <<>> /\ LastMsg = TxtOK

(***************************************************************************)
(* Command session after a failed echo search.                             *)
(***************************************************************************)
\* C11 as stated: sim9_send_at whose echo search failed returns FALSE
\* without the search for "OK", and in shape MSGOK the payload retrieval is
\* made all the same.
Cex_C11 ==
    (apc = "ret" /\ echores = "fail") =>
        /\ ~aok /\ okres = "none"
        /\ atype = SENDAT_TYPE_MSGOK => msgres # "none"

\* C11 (amended): sim9_send_at whose echo search failed returns FALSE and
\* makes neither the payload retrieval nor the search for "OK", whatever the
\* shape; the echo search is made exactly when status.echo is set.
Thm_C11 ==
    /\ (apc = "ret" /\ echores = "fail") =>
          ~aok /\ msgres = "none" /\ okres = "none"
    /\ (apc \in {"msg", "ok"} \/ msgres # "none" \/ okres # "none") =>
          echores # "fail"
    /\ (apc = "ret" /\ echo) => echores # "none"

\* shape MSGOK, echo on, the echo search failed and the call returned
Wit_C11 ==
    apc = "ret" /\ echo /\ echores = "fail" /\ atype = SENDAT_TYPE_MSGOK

(***************************************************************************)
(* The escape sequencer.                                                   *)
(***************************************************************************)
\* how many times s was handed to sim9_send
Times(log, s) == Cardinality({i \in DOMAIN log : log[i] = s})

\* sim9_escape has returned
EscapeReturned == fpc = <<"ret">> /\ fn = "sim9_escape"

\* what a modem in command mode puts on the line for a bare AT
ProbeAnswered == (IF echo THEN <<Framed(TxtAT)>> ELSE <<>>) \o AnsOK

\* C12: sim9_escape called with status.connected set, the modem answering
\* the first bare AT with OK: on return status.connected and errors.esc are
\* FALSE, and "+++" and "AT" were sent once each.
Thm_C12 ==
    (/\ EscapeReturned
     /\ pre.status.connected
     /\ calls[1].ans = ProbeAnswered) =>
        /\ ~status.connected
        /\ ~errors.esc
        /\ Times(txlog, TxtPlus) = 1
        /\ Times(txlog, TxtAT) = 1
        /\ Len(calls) = 1 /\ calls[1].ok

\* the scenario with echo on: the token, its terminator, one probe
Wit_C12 ==
    /\ EscapeReturned /\ pre.status.connected /\ echo
    /\ calls[1].ans = ProbeAnswered
    /\ Times(txlog, TxtPlus) = 1 /\ Times(txlog, TxtCRLF) = 1

\* C13: sim9_escape makes at most 3 attempts: at most 3 probes and 3 tokens,
\* a token exactly in the attempts that begin with status.connected set; no
\* probe follows a successful one; on return errors.esc is set exactly when
\* 3 probes were made and all failed, and then status.connected is set.
Thm_C13 ==
    fn = "sim9_escape" =>
        /\ Len(calls) <= 3
        /\ Times(txlog, TxtAT) = Len(calls)
        /\ Times(txlog, TxtPlus) <= 3
        /\ Times(txlog, TxtPlus) =
              Cardinality({i \in DOMAIN calls : calls[i].info})
              + (IF Head(fpc) = "escape_probe" /\ status.connected THEN 1 ELSE 0)
        /\ \A i \in DOMAIN calls : calls[i].ok => i = Len(calls)
        /\ EscapeReturned =>
              /\ errors.esc <=>
                    (Len(calls) = 3 /\ \A i \in DOMAIN calls : ~calls[i].ok)
              /\ errors.esc => status.connected
              /\ ~errors.esc => (calls[Len(calls)].ok /\ ~status.connected)

\* three failed probes, the first attempt without a token
Wit_C13 ==
    /\ EscapeReturned /\ errors.esc /\ Len(calls) = 3
    /\ ~pre.status.connected /\ Times(txlog, TxtPlus) = 2

(***************************************************************************)
(* The error flags across operations.                                      *)
(***************************************************************************)
\* the flags a function writes FALSE: the flag of its own stage; sim9_on
\* writes errors.all = 0
Rewrites(name) ==
    CASE name = "sim9_escape" -> {"esc"}
      [] name = "pin_check" -> {"pin"}
      [] name = "imei" -> {"imei"}
      [] name = "network_registered" -> {"netreg"}
      [] name \in {"gprs_connect", "gprs_disconnect"} -> {"gprs"}
      [] name = "sim9_tcpip_on" -> {"tcpip", "gprs"}
      [] name = "sim9_on" -> ErrorFlags
      [] OTHER -> {}

Places(cmd) == {i \in DOMAIN txlog : txlog[i] = Cmd(cmd)}

\* every c1 in the log comes before every c2
Before(c1, c2) == \A i \in Places(c1), j \in Places(c2) : i < j

\* C15: in sim9_on AT+CPIN? comes before AT+CGSN and AT+CGSN before
\* AT+CGREG?; a stage's command is in the log only if no flag was set when
\* the stage was reached (init for the PIN check; init and pin for the
\* identity; init, pin and imei for the registration), so a set flag keeps
\* every later stage's command out; a stage reached with no flag set sends
\* its command.
Thm_C15 ==
    fn = "sim9_on" =>
        /\ Before(TxtCmdCPIN, TxtCmdCGSN)
        /\ Before(TxtCmdCGSN, TxtCmdCGREG)
        /\ Before(TxtCmdCPIN, TxtCmdCGREG)
        /\ Before(TxtCmdCNETLIGHT, TxtCmdCPIN)
        /\ Places(TxtCmdCPIN) # {} => ~errors.init
        /\ Places(TxtCmdCGSN) # {} => ~errors.init /\ ~errors.pin
        /\ Places(TxtCmdCGREG) # {} =>
              ~errors.init /\ ~errors.pin /\ ~errors.imei
        /\ Cardinality(Places(TxtCmdCPIN)) <= 1
        /\ fpc = <<"ret">> =>
              /\ ~errors.init => Places(TxtCmdCPIN) # {}
              /\ ~(errors.init \/ errors.pin) => Places(TxtCmdCGSN) # {}
              /\ ~(errors.init \/ errors.pin \/ errors.imei) =>
                    Places(TxtCmdCGREG) # {}

\* sim9_on returned after a failed PIN check: AT+CPIN? was sent, AT+CGSN and
\* AT+CGREG? were not
Wit_C15 ==
    /\ fn = "sim9_on" /\ fpc = <<"ret">>
    /\ errors.pin /\ Places(TxtCmdCPIN) # {}
    /\ Places(TxtCmdCGSN) = {} /\ Places(TxtCmdCGREG) = {}

(***************************************************************************)
(* pin_check called twice.                                                 *)
(***************************************************************************)
\* pin_check returned, the call before it was pin_check too, and the modem
\* put the same lines on the line for both
PinCheckedTwice ==
    /\ fpc = <<"ret">> /\ fn = "pin_check"
    /\ prev # <<>> /\ prev[1].fn = "pin_check"
    /\ prev[1].calls[1].info = calls[1].info

\* C16 as stated: after the second of two pin_check calls answered the same
\* way, errors.pin is what the first call left and no other flag of errors
\* or status has changed.
Cex_C16 == PinCheckedTwice => (errors = pre.errors /\ status = pre.status)

(***************************************************************************)
(* The identity stage.                                                     *)
(***************************************************************************)
\* the i-th AT+CGSN succeeded as a MSGOK command and left an identity of
\* more than 14 characters
GoodIdentity(i) == calls[i].ok

\* C17: imei sends AT+CGSN at most 10 times; no attempt follows one that
\* succeeded with an identity longer than 14 characters; on return
\* errors.imei is FALSE exactly when there was such an attempt.
Thm_C17 ==
    fn = "imei" =>
        /\ Cardinality(Places(TxtCmdCGSN)) <= 10
        /\ Cardinality(Places(TxtCmdCGSN)) = Len(calls)
        /\ \A i \in DOMAIN calls : GoodIdentity(i) => i = Len(calls)
        /\ fpc = <<"ret">> =>
              (~errors.imei <=> \E i \in DOMAIN calls : GoodIdentity(i))
        /\ (fpc = <<"ret">> /\ errors.imei) => Len(calls) = 10

\* the tenth attempt is the first good one
Wit_C17 ==
    /\ fn = "imei" /\ fpc = <<"ret">>
    /\ Len(calls) = 10 /\ ~errors.imei
    /\ strlen(CStr(imeibuf)) = 15

(***************************************************************************)
(* GPRS attach and detach.                                                 *)
(***************************************************************************)
\* gprs_connect or gprs_disconnect is the function called
GprsCalled == fn \in {"gprs_connect", "gprs_disconnect"}

\* C18 as stated: AT+CGATT? is sent at most 5 times by gprs_connect and
\* gprs_disconnect, and when the attach or detach command failed errors.gprs
\* is set and AT+CGATT? is not sent.
Cex_C18 ==
    GprsCalled =>
        /\ Cardinality(Places(TxtCmdCGATT)) <= 5
        /\ (calls # <<>> /\ ~calls[1].ok) =>
              (errors.gprs /\ Places(TxtCmdCGATT) = {})

(***************************************************************************)
(* Carrier detection.                                                      *)
(***************************************************************************)
\* the text holds pat at offset off (counted from 0)
TextAt(text, off, pat) ==
    /\ off + Len(pat) <= Len(text)
    /\ SubSeq(text, off + 1, off + Len(pat)) = pat

\* the selector the text of the matched line asks for
SelectorOf(text) ==
    IF TextAt(text, 12, TxtTIM) THEN 3
    ELSE IF TextAt(text, 13, TxtOdafo) THEN 2
    ELSE 1

\* C19 as stated: after apn_setup, when a line containing "+COPS:" was
\* received the provider is 3 for "I TIM" at offset 12 of its text, 2 for
\* "odafo" at offset 13, 1 for anything else, and errors.apn is as before;
\* when none was received the provider is 0 and errors.apn is set.
Cex_C19 ==
    (fn = "apn_setup" /\ fpc = <<"ret">>) =>
        IF calls[1].ok
        THEN /\ status.provider = SelectorOf(calls[1].info)
             /\ errors.apn = pre.errors.apn
        ELSE status.provider = 0 /\ errors.apn

(***************************************************************************)
(* sim9_tcpip_on.                                                          *)
(***************************************************************************)
\* a record of the history says that cmd succeeded
Succeeded(cmd) == \E i \in DOMAIN calls : calls[i].cmd = cmd /\ calls[i].ok

\* C20: in sim9_tcpip_on AT+CIICR is sent only after the start-task command
\* of the provider in status.provider, which is then 1, 2 or 3; AT+CIFSR is
\* sent only after AT+CIICR was sent and succeeded; with provider 0 after the
\* switch errors.apn is set and neither of the two is sent.
Thm_C20 ==
    fn = "sim9_tcpip_on" =>
        /\ Places(TxtCmdCIICR) # {} =>
              /\ status.provider \in 1..3
              /\ Places(StartTask[status.provider]) # {}
              /\ Before(StartTask[status.provider], TxtCmdCIICR)
        /\ Places(TxtCmdCIFSR) # {} =>
              /\ Places(TxtCmdCIICR) # {}
              /\ Succeeded(TxtCmdCIICR)
              /\ Before(TxtCmdCIICR, TxtCmdCIFSR)
        /\ status.provider = 0 =>
              /\ Places(TxtCmdCIICR) = {} /\ Places(TxtCmdCIFSR) = {}
              /\ \A k \in 1..3 : Places(StartTask[k]) = {}
              /\ Head(fpc) \in {"tcpip_bearer", "tcpip_addr", "ret"} => errors.apn

\* the whole bring-up went through: the address query was sent
Wit_C20 ==
    /\ fn = "sim9_tcpip_on" /\ fpc = <<"ret">>
    /\ Places(TxtCmdCIFSR) # {} /\ status.provider = 2

(***************************************************************************)
(* Termination of the retries.                                             *)
(***************************************************************************)
\* sim9_send_at calls of the function in progress: each sends its command
\* and then the terminator
Commands == Times(txlog, <<CR>>)

\* the function the application called has not returned
Running == fpc \notin {<<"idle">>, <<"ret">>}

\* the polls, the attempts and the commands a call has made so far are within
\* what its parameters and the retry counts of the functions allow
WithinBudget ==
    /\ polls <= mtimeout * LoopsPerSecond + 1
    /\ attempts <= scount0 + 1
    /\ mtimeout < ByteModulus /\ scount0 < ByteModulus
    /\ fn = "sim9_escape" => Times(txlog, TxtPlus) <= 3 /\ Commands <= 3
    /\ fn = "sim9_on" => Commands <= 9 + 1 + 10 + 5
    /\ fn = "sim9_tcpip_on" => Commands <= 2 + (1 + 6) + 1 + 1 + 1 + 1

\* C21: whatever the modem does (nothing, blank lines, ERROR, lines that do
\* not match, lines that come late), every sim9_msg, sim9_searchfor and
\* sim9_send_at call returns, within timeout * 100 + 1 polls and count + 1
\* attempts, and sim9_escape, sim9_on and sim9_tcpip_on return after at most
\* 3, 25 and 13 commands.  The application makes finitely many calls, so
\* every call returns exactly when from some point on no call is in progress.
Thm_C21 ==
    /\ []WithinBudget
    /\ <>[](mpc # "poll" /\ spc # "run" /\ apc \in {"off", "ret"} /\ ~Running)

\* sim9_on returned after every retry of the identity and of the
\* registration stage: 25 commands
Wit_C21 ==
    /\ fn = "sim9_on" /\ fpc = <<"ret">> /\ Commands = 25
    /\ errors.netreg

(***************************************************************************)
(* Ownership of the status and error fields.                               *)
(***************************************************************************)
StatusFields == DOMAIN StatusZero

\* the fields a function may write
Owned(name) ==
    CASE name = "sim9_escape" -> [status |-> {"connected"}, errors |-> {"esc"}]
      [] name = "pin_check" -> [status |-> {}, errors |-> {"pin"}]
      [] name \in {"gprs_connect", "gprs_disconnect"} ->
            [status |-> {"gprs"}, errors |-> {"gprs"}]
      [] OTHER -> [status |-> {}, errors |-> {}]

\* every field the function called last does not own is as it was at the call
FieldsKept ==
    /\ \A f \in ErrorFlags \ Owned(fn).errors : errors[f] = pre.errors[f]
    /\ \A f \in StatusFields \ Owned(fn).status : status[f] = pre.status[f]
    /\ echo = pre.echo

\* C22: a step of sim9_msg, sim9_searchfor or sim9_send_at leaves every
\* status and error field (status.echo included) as it is; during and after
\* sim9_escape only status.connected and errors.esc differ from what they
\* were at the call, during and after pin_check only errors.pin, during and
\* after gprs_connect and gprs_disconnect only status.gprs and errors.gprs.
Thm_C22 ==
    /\ [](fn \in Owners => FieldsKept)
    /\ [][lowvars' # lowvars => UNCHANGED <<errors, status, echo>>]_vars

\* sim9_escape failed after a pin_check that failed: errors.esc was raised
\* and errors.pin is as pin_check left it
Wit_C22 ==
    /\ fn = "sim9_escape" /\ fpc = <<"ret">>
    /\ pre.errors.pin /\ errors.pin
    /\ ~pre.errors.esc /\ errors.esc

(***************************************************************************)
(* A modem that answers late.  sim9_on sends its first commands one after  *)
(* the other, whatever each returned; the modem answers every command it   *)
(* was sent with a blank line and "OK", in order, after any delay.         *)
(***************************************************************************)
\* sim9_on up to its first command: the flags are cleared, the receive buffer
\* is cleared and "AT" is sent
sim9_on_at ==
    /\ fpc = <<"idle">>
    /\ apc = "off"
    /\ fn' = "sim9_on"
    /\ status' = StatusZero
    /\ errors' = NoErrors
    /\ echo' = FALSE
    /\ rxq' = <<>>
    /\ sim9_send_at_enter(Cmd(TxtAT), <<>>, SENDAT_TYPE_OK)
    /\ fpc' = <<"on_ipr">>
    /\ UNCHANGED <<delivered, scratch, msgvars, srchvars, retry, imeibuf, fbuf,
                   calls, pre, prev, nops, memvars>>

\* the first command returned, its result is dropped: "AT+IPR=9600" is sent
sim9_on_ipr ==
    /\ fpc = <<"on_ipr">>
    /\ apc = "ret"
    /\ sim9_send_at_enter(Cmd(OnCommands.on_ipr.cmd), <<>>, SENDAT_TYPE_OK)
    /\ fpc' = <<OnCommands.on_ipr.next>>
    /\ UNCHANGED <<rxq, delivered, scratch, msgvars, srchvars, echo, fn, retry,
                   errors, status, imeibuf, fbuf, calls, pre, prev, nops, memvars>>

\* the next line of the answers: two lines for each command sent so far
ModemAnswerLate ==
    /\ UNCHANGED sessvars
    /\ delivered < 2 * Commands
    /\ Len(rxq) < MaxQueue
    /\ ArrivalPoint
    /\ rxq' = Append(rxq, IF delivered % 2 = 0 THEN Framed(<<>>) ELSE Framed(TxtOK))
    /\ delivered' = delivered + 1
    /\ UNCHANGED <<extbuf, scratch, msgvars, srchvars, echo, txlog, atvars>>

NextLate ==
    \/ sim9_on_at
    \/ sim9_on_ipr
    \/ ModemAnswerLate
    \/ sim9_send_at_answer
    \/ sim9_send_at_ok_ret
    \/ sim9_searchfor_step
    \/ sim9_msg_poll

SpecLate == Init /\ [][NextLate]_vars

\* the lines read from the receive queue so far
Consumed == delivered - Len(rxq)

\* C23: sim9_send_at with shape OK returns TRUE only when the "OK" it read
\* answers the command it sent: the lines read so far are then exactly the
\* answers to the commands sent so far; and a command is sent only when every
\* line of the answers to the commands before it has arrived and was read.
Cex_C23 ==
    /\ (apc = "ret" /\ atype = SENDAT_TYPE_OK /\ aok) => Consumed = 2 * Commands
    /\ (apc = "answer_delay" /\ Commands >= 1) => Consumed >= 2 * (Commands - 1)

(***************************************************************************)
(* The error flags after sim9_on.                                          *)
(***************************************************************************)
\* the error flags that are set
Raised == {f \in ErrorFlags : errors[f]}

\* C24: when sim9_on returns at most one error flag is set, one of init,
\* pin, imei and netreg, whatever was set when it was called; and inside
\* sim9_on the stages pin_check, imei and network_registered start only
\* with no flag set.
Thm_C24 ==
    /\ (fn = "sim9_on" /\ fpc = <<"ret">>) =>
          /\ Cardinality(Raised) <= 1
          /\ Raised \subseteq {"init", "pin", "imei", "netreg"}
    /\ (fn = "sim9_on" /\ Head(fpc) \in {"pin_check", "imei", "network_registered"})
          => Raised = {}

\* sim9_on, called with errors.off set, returned with errors.init alone: the
\* factory reset failed and no later stage sent its command
Wit_C24 ==
    /\ fn = "sim9_on" /\ fpc = <<"ret">>
    /\ pre.errors.off
    /\ Raised = {"init"}
    /\ Len(calls) = 1 /\ ~calls[1].ok

(***************************************************************************)
(* The life cycle of the session.                                          *)
(***************************************************************************)
\* sim9_init has just returned
InitReturned == fn = "sim9_init" /\ fpc = <<"ret">>

\* C25: over any sequence of sim9_init and sim9_shut calls there is at most
\* one session, every sim9_init returns a session that is live, and the one
\* that follows a sim9_shut returns a session with status and errors cleared
\* and an empty identity.
Cex_C25 ==
    /\ Cardinality(live) <= 1
    /\ InitReturned => handle \in live
    /\ (InitReturned /\ prev # <<>>) =>
          /\ status = StatusZero /\ ~echo
          /\ errors = NoErrors
          /\ CStr(imeibuf) = <<>>

====
